---- MODULE Spec2Model ----
(***************************************************************************)
(* errnumgen: discovery of returned error expressions (package parser),    *)
(* their rewriting into errnums.New(errnums.N_<n>, <expr>) and the         *)
(* generation of the companion file (package generator), driven by run.    *)
(*                                                                         *)
(* Source text is a sequence of bytes.  The byte alphabet of the model is  *)
(* a small set of one-character lexemes of a Go subset:                    *)
(*   V        a non-function top-level declaration (import, var, type)     *)
(*   F        func declaration header up to the result list                *)
(*   L        func literal header up to the result list                    *)
(*   x T E    a result name, a non-error type identifier, the type `error` *)
(*   { }      body braces            B   a block statement header (if/for) *)
(*   R        the keyword return     X   an assignment `_ =`               *)
(*   e n q P  identifiers: err, nil, errors, <the output package name>     *)
(*   H        the identifier ERR_NUM_PLACEHOLDER                            *)
(*   N        the text `.New(`       C   the text `.N_`                    *)
(*   ( ) ,    call punctuation       s   a basic literal    0..9 digits    *)
(* Offsets are 0-based byte offsets as in go/token; [pos,end) half open.   *)
(***************************************************************************)
EXTENDS Integers, Sequences, FiniteSets, TLC

\* ------------------------------------------------------------------ syntax

Idents == {"e", "n", "q", "P", "H"}
Digits == {"0", "1", "2", "3", "4", "5", "6", "7", "8", "9"}
TypeToks == {"T", "E"}

\* ast.FieldList of results: isNil models FuncType.Results == nil
NoResults == [isNil |-> TRUE, list |-> <<>>]

\* One record shape for every ast.Node of the subset.
\*   kind  Gen | Func | Ret | ExprStmt | Block | Ident | Call | Sel | Lit | FuncLit
\*   name  the identifier's name (Ident), the selected name (Sel)
\*   kids  Call: <<Fun>> \o Args; Sel: <<X>>; Ret: Results; ExprStmt: <<X>>
\*   res   the result FieldList of a Func / FuncLit; body its statement list
Node(kind, pos, end, name, kids, res, body) ==
    [kind |-> kind, pos |-> pos, end |-> end, name |-> name,
     kids |-> kids, res |-> res, body |-> body]

BadNode == Node("Bad", 0, 0, <<>>, <<>>, NoResults, <<>>)

Tok(t, i) == IF i >= 1 /\ i <= Len(t) THEN t[i] ELSE "EOF"

Fail1 == [ok |-> FALSE, nxt |-> 0, node |-> BadNode]
FailN == [ok |-> FALSE, nxt |-> 0, nodes |-> <<>>]

RECURSIVE DigitRun(_, _)
\* index after the longest run of digits starting at i
DigitRun(t, i) == IF Tok(t, i) \in Digits THEN DigitRun(t, i + 1) ELSE i

RECURSIVE ScanResults(_, _, _, _)
\* result list of a function type: fields of (names)* type, up to the "{"
ScanResults(t, i, names, acc) ==
    IF Tok(t, i) = "x" THEN ScanResults(t, i + 1, names + 1, acc)
    ELSE IF Tok(t, i) \in TypeToks
    THEN ScanResults(t, i + 1, 0, Append(acc, [names |-> names, type |-> Tok(t, i)]))
    ELSE IF Tok(t, i) = "{" /\ names = 0
    THEN [ok |-> TRUE, nxt |-> i,
          res |-> IF acc = <<>> THEN NoResults ELSE [isNil |-> FALSE, list |-> acc]]
    ELSE [ok |-> FALSE, nxt |-> 0, res |-> NoResults]

RECURSIVE SynExpr(_, _)
RECURSIVE SynExprList(_, _)
RECURSIVE SynExprRest(_, _, _)
RECURSIVE SynStmts(_, _, _)
RECURSIVE SynBody(_, _)
RECURSIVE SynFunc(_, _, _)

IdentAt(t, i) == Node("Ident", i - 1, i, <<t[i]>>, <<>>, NoResults, <<>>)

\* the statements b, then the closing brace
CloseBody(t, b) ==
    IF b.ok /\ Tok(t, b.nxt) = "}"
    THEN [ok |-> TRUE, nxt |-> b.nxt + 1, nodes |-> b.nodes]
    ELSE FailN

\* a braced statement list starting at the "{" at index i
SynBody(t, i) ==
    IF Tok(t, i) # "{" THEN FailN ELSE CloseBody(t, SynStmts(t, i + 1, <<>>))

FuncWithBody(i, kind, res, b) ==
    IF ~b.ok THEN Fail1
    ELSE [ok |-> TRUE, nxt |-> b.nxt,
          node |-> Node(kind, i - 1, b.nxt - 1, <<>>, <<>>, res, b.nodes)]

FuncWithResults(t, i, kind, r) ==
    IF ~r.ok THEN Fail1 ELSE FuncWithBody(i, kind, r.res, SynBody(t, r.nxt))

\* func type and body, after the F or L at index i
SynFunc(t, i, kind) == FuncWithResults(t, i, kind, ScanResults(t, i + 1, 0, <<>>))

\* the call fun(a...) of the expression that starts at index i
CallWithArgs(t, i, fun, a) ==
    IF a.ok /\ Tok(t, a.nxt) = ")"
    THEN [ok |-> TRUE, nxt |-> a.nxt + 1,
          node |-> Node("Call", i - 1, a.nxt, <<>>, <<fun>> \o a.nodes, NoResults, <<>>)]
    ELSE Fail1

\* the selector X.N_<digits> that starts at index i and ends before index j
ConstSel(t, i, j) ==
    [ok |-> TRUE, nxt |-> j,
     node |-> Node("Sel", i - 1, j - 1, <<"N_">> \o SubSeq(t, i + 2, j - 1),
                   <<IdentAt(t, i)>>, NoResults, <<>>)]

SynExpr(t, i) ==
    IF Tok(t, i) \in Idents
    THEN IF Tok(t, i + 1) \in {"N", "("}
         THEN CallWithArgs(t, i,
                           IF Tok(t, i + 1) = "N"
                           THEN Node("Sel", i - 1, i + 1, <<"New">>, <<IdentAt(t, i)>>,
                                     NoResults, <<>>)
                           ELSE IdentAt(t, i),
                           SynExprList(t, i + 2))
         ELSE IF Tok(t, i + 1) = "C" THEN ConstSel(t, i, DigitRun(t, i + 2))
         ELSE [ok |-> TRUE, nxt |-> i + 1, node |-> IdentAt(t, i)]
    ELSE IF Tok(t, i) = "s"
    THEN [ok |-> TRUE, nxt |-> i + 1,
          node |-> Node("Lit", i - 1, i, <<"s">>, <<>>, NoResults, <<>>)]
    ELSE IF Tok(t, i) = "L" THEN SynFunc(t, i, "FuncLit")
    ELSE Fail1

RestWithExpr(t, acc, e) ==
    IF e.ok THEN SynExprRest(t, e.nxt, Append(acc, e.node)) ELSE FailN

SynExprRest(t, i, acc) ==
    IF Tok(t, i) # "," THEN [ok |-> TRUE, nxt |-> i, nodes |-> acc]
    ELSE RestWithExpr(t, acc, SynExpr(t, i + 1))

\* a possibly empty, comma separated expression list
SynExprList(t, i) ==
    IF Tok(t, i) \in Idents \cup {"s", "L"}
    THEN RestWithExpr(t, <<>>, SynExpr(t, i))
    ELSE [ok |-> TRUE, nxt |-> i, nodes |-> <<>>]

\* the statement of the given kind that starts at index i, parsed as r
StmtsWith(t, i, acc, kind, r) ==
    IF ~r.ok THEN FailN
    ELSE SynStmts(t, r.nxt,
                  Append(acc, Node(kind, i - 1, r.nxt - 1, <<>>,
                                   IF kind = "Block" THEN <<>> ELSE r.nodes, NoResults,
                                   IF kind = "Block" THEN r.nodes ELSE <<>>)))

OneExpr(e) == [ok |-> e.ok, nxt |-> e.nxt, nodes |-> <<e.node>>]

SynStmts(t, i, acc) ==
    IF Tok(t, i) = "R" THEN StmtsWith(t, i, acc, "Ret", SynExprList(t, i + 1))
    ELSE IF Tok(t, i) = "X" THEN StmtsWith(t, i, acc, "ExprStmt", OneExpr(SynExpr(t, i + 1)))
    ELSE IF Tok(t, i) = "B" THEN StmtsWith(t, i, acc, "Block", SynBody(t, i + 1))
    ELSE [ok |-> TRUE, nxt |-> i, nodes |-> acc]

RECURSIVE SynDecls(_, _, _)

DeclsWith(t, acc, f) ==
    IF f.ok THEN SynDecls(t, f.nxt, Append(acc, f.node)) ELSE FailN

SynDecls(t, i, acc) ==
    IF Tok(t, i) = "EOF" THEN [ok |-> TRUE, nxt |-> i, nodes |-> acc]
    ELSE IF Tok(t, i) = "V"
    THEN SynDecls(t, i + 1, Append(acc, Node("Gen", i - 1, i, <<>>, <<>>, NoResults, <<>>)))
    ELSE IF Tok(t, i) = "F" THEN DeclsWith(t, acc, SynFunc(t, i, "Func"))
    ELSE FailN

WholeExpr(text, e) == e.ok /\ e.nxt = Len(text) + 1

\* go/parser.ParseFile: the declarations of a file, or a syntax error
GoParseFile(data) == SynDecls(data, 1, <<>>)

\* go/parser.ParseExpr: the text must be exactly one expression
GoParseExpr(text) == WholeExpr(text, SynExpr(text, 1))

\* ------------------------------------------------- package parser (errparser)

OutPackageName == <<"P">>
constErrPrefix == <<"N_">>
NilName == <<"n">>

DigitVal(c) ==
    CASE c = "0" -> 0 [] c = "1" -> 1 [] c = "2" -> 2 [] c = "3" -> 3 [] c = "4" -> 4
      [] c = "5" -> 5 [] c = "6" -> 6 [] c = "7" -> 7 [] c = "8" -> 8 [] OTHER -> 9

RECURSIVE AtoiAcc(_, _, _)
AtoiAcc(d, i, acc) ==
    IF i > Len(d) THEN acc ELSE AtoiAcc(d, i + 1, acc * 10 + DigitVal(d[i]))

\* strconv.Atoi on an identifier tail: fails on the empty string and on a non-digit
Atoi(d) ==
    IF d = <<>> \/ \E i \in 1..Len(d) : d[i] \notin Digits
    THEN [ok |-> FALSE, val |-> 0]
    ELSE [ok |-> TRUE, val |-> AtoiAcc(d, 1, 0)]

\* strings.CutPrefix
CutPrefix(s, prefix) ==
    IF Len(s) >= Len(prefix) /\ SubSeq(s, 1, Len(prefix)) = prefix
    THEN [ok |-> TRUE, rest |-> SubSeq(s, Len(prefix) + 1, Len(s))]
    ELSE [ok |-> FALSE, rest |-> s]

\* the classifier's answer: skip, and the generator's lastErrNum after the call;
\* rec is the number recovered from an already wrapped site, if any
Verdict(skip, last, rec) == [skip |-> skip, last |-> last, rec |-> rec]

\* parser.GetDefaultOptions().RetParamParser
DefaultRetParamParser(last, retParam) == Verdict(FALSE, last, {})

\* Generator.ParseRetParam without the comparison g.lastErrNum < num
ParseRetParamKeepLatest(last, retParam) ==
    IF retParam.kind # "Call" THEN Verdict(FALSE, last, {})
    ELSE LET fun == retParam.kids[1]
             args == Tail(retParam.kids)
         IN  IF fun.kind # "Sel" \/ fun.name # <<"New">> THEN Verdict(FALSE, last, {})
             ELSE IF fun.kids[1].kind # "Ident" \/ fun.kids[1].name # OutPackageName
             THEN Verdict(FALSE, last, {})
             ELSE IF Len(args) # 2 THEN Verdict(TRUE, last, {})
             ELSE IF args[1].kind # "Sel" THEN Verdict(TRUE, last, {})
             ELSE LET cut == CutPrefix(args[1].name, constErrPrefix)
                      num == Atoi(cut.rest)
                  IN  IF ~cut.ok \/ ~num.ok THEN Verdict(TRUE, last, {})
                      ELSE Verdict(TRUE, num.val, {num.val})

\* Generator.ParseRetParam
ParseRetParam(last, retParam) ==
    IF retParam.kind # "Call" THEN Verdict(FALSE, last, {})
    ELSE LET fun == retParam.kids[1]
             args == Tail(retParam.kids)
         IN  IF fun.kind # "Sel" \/ fun.name # <<"New">> THEN Verdict(FALSE, last, {})
             ELSE IF fun.kids[1].kind # "Ident" \/ fun.kids[1].name # OutPackageName
             THEN Verdict(FALSE, last, {})
             ELSE IF Len(args) # 2 THEN Verdict(TRUE, last, {})
             ELSE IF args[1].kind # "Sel" THEN Verdict(TRUE, last, {})
             ELSE LET cut == CutPrefix(args[1].name, constErrPrefix)
                      num == Atoi(cut.rest)
                  IN  IF ~cut.ok \/ ~num.ok THEN Verdict(TRUE, last, {})
                      ELSE Verdict(TRUE, IF last < num.val THEN num.val ELSE last,
                                   {num.val})

\* Parser.parseRetError: the configured RetParamParseFunc
RetParamParser(cls, last, retParam) ==
    IF cls = "default" THEN DefaultRetParamParser(last, retParam)
    ELSE ParseRetParam(last, retParam)

\* ast.FieldList.NumFields
RECURSIVE NumFieldsFrom(_, _)
NumFieldsFrom(list, k) ==
    IF k > Len(list) THEN 0
    ELSE (IF list[k].names > 0 THEN list[k].names ELSE 1) + NumFieldsFrom(list, k + 1)

NumFields(res) == IF res.isNil THEN 0 ELSE NumFieldsFrom(res.list, 1)

RECURSIVE FindIdxFromEntries(_, _, _)
\* the loop of findResultParamIdx with paramCnt++ for every entry, whatever the
\* number of its names
FindIdxFromEntries(list, k, paramCnt) ==
    IF k > Len(list) THEN -1
    ELSE IF list[k].type = "E" THEN paramCnt
    ELSE FindIdxFromEntries(list, k + 1, paramCnt + 1)

RECURSIVE FindIdxFrom(_, _, _)
FindIdxFrom(list, k, paramCnt) ==
    IF k > Len(list) THEN -1
    ELSE IF list[k].type = "E" THEN paramCnt
    ELSE FindIdxFrom(list, k + 1,
                     paramCnt + (IF list[k].names > 0 THEN list[k].names ELSE 1))

\* findResultParamIdx answering the first slot whatever its type
findResultParamIdxFirst(res) == 0

\* Parser.findResultParamIdx (Results must not be nil: the caller's state crashes)
findResultParamIdx(res) == FindIdxFrom(res.list, 1, 0)

\* The state threaded through one Parse call.
\*   nodes      errsToEdit, one list per package
\*   last       the generator's lastErrNum, as the classifier updates it
\*   crash      "" or the runtime panic that ended the process
\*   visits, classified, recovered: the calls made, kept for the properties
WalkInit(npkgs, last) ==
    [nodes |-> [i \in 1..npkgs |-> <<>>], last |-> last, crash |-> "",
     visits |-> <<>>, classified |-> <<>>, recovered |-> {}]

Site(file, n) == [file |-> file, pos |-> n.pos, end |-> n.end]

IsNilIdent(n) == n.kind = "Ident" /\ n.name = NilName

\* one call of parseResultParams: the return statement, its result expressions
\* and the error-slot index and result count it was called with
Visit(file, ret, retErrIdx, retNumFields) ==
    [file |-> file, pos |-> ret.pos, end |-> ret.end, idx |-> retErrIdx, n |-> retNumFields,
     results |-> [k \in 1..Len(ret.kids) |->
                     [pos |-> ret.kids[k].pos, end |-> ret.kids[k].end,
                      isNil |-> IsNilIdent(ret.kids[k])]]]

\* Parser.parseResultParams without the test len(returnStmt.Results) != retNumFields
parseResultParamsNoArity(st, cls, pkgIdx, file, ret, retErrIdx, retNumFields) ==
    LET seen == [st EXCEPT !.visits = Append(@, Visit(file, ret, retErrIdx, retNumFields))]
    IN  IF retErrIdx + 1 > Len(ret.kids)
        THEN [seen EXCEPT !.crash = "index out of range: Results[retErrIdx]"]
        ELSE LET retParam == ret.kids[retErrIdx + 1]
             IN  IF IsNilIdent(retParam) THEN seen
                 ELSE LET v == RetParamParser(cls, seen.last, retParam)
                          told == [seen EXCEPT !.last = v.last,
                                               !.recovered = @ \cup v.rec,
                                               !.classified = Append(@, Site(file, retParam))]
                      IN  IF v.skip THEN told
                          ELSE [told EXCEPT !.nodes[pkgIdx] = Append(@, Site(file, retParam))]

\* Parser.parseResultParams without the test retIdent.Name == "nil"
parseResultParamsNoNil(st, cls, pkgIdx, file, ret, retErrIdx, retNumFields) ==
    LET seen == [st EXCEPT !.visits = Append(@, Visit(file, ret, retErrIdx, retNumFields))]
    IN  IF Len(ret.kids) # retNumFields THEN seen
        ELSE LET retParam == ret.kids[retErrIdx + 1]
                 v == RetParamParser(cls, seen.last, retParam)
                 told == [seen EXCEPT !.last = v.last,
                                      !.recovered = @ \cup v.rec,
                                      !.classified = Append(@, Site(file, retParam))]
             IN  IF v.skip THEN told
                 ELSE [told EXCEPT !.nodes[pkgIdx] = Append(@, Site(file, retParam))]

\* Parser.parseResultParams
parseResultParams(st, cls, pkgIdx, file, ret, retErrIdx, retNumFields) ==
    LET seen == [st EXCEPT !.visits = Append(@, Visit(file, ret, retErrIdx, retNumFields))]
    IN  IF Len(ret.kids) # retNumFields THEN seen
        ELSE LET retParam == ret.kids[retErrIdx + 1]
             IN  IF IsNilIdent(retParam) THEN seen
                 ELSE LET v == RetParamParser(cls, seen.last, retParam)
                          told == [seen EXCEPT !.last = v.last,
                                               !.recovered = @ \cup v.rec,
                                               !.classified = Append(@, Site(file, retParam))]
                      IN  IF v.skip THEN told
                          ELSE [told EXCEPT !.nodes[pkgIdx] = Append(@, Site(file, retParam))]

\* the children ast.Inspect descends into, in source order
Children(n) == IF n.kind \in {"Block", "FuncLit"} THEN n.body ELSE n.kids

RECURSIVE parseFunction(_, _, _, _, _, _)
RECURSIVE Inspect(_, _, _, _, _, _, _)
RECURSIVE InspectAll(_, _, _, _, _, _, _, _)

\* the callback of ast.Inspect in Parser.parseFunction, applied to n and, when it
\* answers true, to n's children
Inspect(st, cls, pkgIdx, file, n, retErrIdx, retNumFields) ==
    IF st.crash # "" THEN st
    ELSE IF n.kind = "FuncLit" THEN parseFunction(st, cls, pkgIdx, file, n.res, n.body)
    ELSE IF n.kind = "Ret"
    THEN parseResultParams(st, cls, pkgIdx, file, n, retErrIdx, retNumFields)
    ELSE InspectAll(st, cls, pkgIdx, file, Children(n), 1, retErrIdx, retNumFields)

InspectAll(st, cls, pkgIdx, file, list, k, retErrIdx, retNumFields) ==
    IF k > Len(list) THEN st
    ELSE InspectAll(Inspect(st, cls, pkgIdx, file, list[k], retErrIdx, retNumFields),
                    cls, pkgIdx, file, list, k + 1, retErrIdx, retNumFields)

\* Parser.parseFunction; funcType.Results.List dereferences a nil Results
parseFunction(st, cls, pkgIdx, file, res, body) ==
    IF st.crash # "" THEN st
    ELSE IF res.isNil THEN [st EXCEPT !.crash = "nil pointer dereference"]
    ELSE LET retErrIdx == findResultParamIdx(res)
         IN  IF retErrIdx = -1 THEN st
             ELSE InspectAll(st, cls, pkgIdx, file, body, 1, retErrIdx, NumFields(res))

\* is this declaration a function declaration with a result list
HasResults(decl) == decl.kind = "Func" /\ ~decl.res.isNil /\ Len(decl.res.list) > 0

RECURSIVE KeepDeclAnyType(_, _, _, _, _)
\* the inner loop of filterPackageDecls without the test tp.String() == "error"
KeepDeclAnyType(decls, j, decl, rets, k) ==
    IF k > Len(rets) THEN [decls |-> decls, j |-> j, crash |-> ""]
    ELSE IF j + 1 > Len(decls)
    THEN [decls |-> decls, j |-> j, crash |-> "index out of range: Decls[j]"]
    ELSE KeepDeclAnyType([decls EXCEPT ![j + 1] = decl], j + 1, decl, rets, k + 1)

RECURSIVE KeepDecl(_, _, _, _, _)
\* the inner loop of filterPackageDecls over the results of one declaration:
\* stxFile.Decls[j] = decl; j++ for every result whose type is `error`
KeepDecl(decls, j, decl, rets, k) ==
    IF k > Len(rets) THEN [decls |-> decls, j |-> j, crash |-> ""]
    ELSE IF rets[k].type = "E"
    THEN IF j + 1 > Len(decls)
         THEN [decls |-> decls, j |-> j, crash |-> "index out of range: Decls[j]"]
         ELSE KeepDecl([decls EXCEPT ![j + 1] = decl], j + 1, decl, rets, k + 1)
    ELSE KeepDecl(decls, j, decl, rets, k + 1)

RECURSIVE FilterDecls(_, _, _, _)
\* the loop `for _, decl := range stxFile.Decls`: the range reads element i of the
\* backing array when iteration i starts, after the writes of earlier iterations
FilterDecls(decls, i, j, n) ==
    IF i > n THEN [decls |-> SubSeq(decls, 1, j), crash |-> ""]
    ELSE LET decl == decls[i]
         IN  IF ~HasResults(decl) THEN FilterDecls(decls, i + 1, j, n)
             ELSE LET k == KeepDecl(decls, j, decl, decl.res.list, 1)
                  IN  IF k.crash # "" THEN [decls |-> decls, crash |-> k.crash]
                      ELSE FilterDecls(k.decls, i + 1, k.j, n)

RECURSIVE FilterFiles(_, _, _)
FilterFiles(files, i, acc) ==
    IF i > Len(files) THEN [files |-> acc, crash |-> ""]
    ELSE LET f == FilterDecls(files[i].decls, 1, 0, Len(files[i].decls))
         IN  IF f.crash # "" THEN [files |-> acc, crash |-> f.crash]
             ELSE FilterFiles(files, i + 1,
                              IF Len(f.decls) > 0
                              THEN Append(acc, [name |-> files[i].name, decls |-> f.decls])
                              ELSE acc)

\* Parser.filterPackageDecls on pkg.Syntax
filterPackageDecls(syntax) == FilterFiles(syntax, 1, <<>>)

RECURSIVE ParseDecls(_, _, _, _, _, _)
ParseDecls(st, cls, pkgIdx, file, decls, k) ==
    IF k > Len(decls) \/ st.crash # "" THEN st
    ELSE ParseDecls(parseFunction(st, cls, pkgIdx, file, decls[k].res, decls[k].body),
                    cls, pkgIdx, file, decls, k + 1)

RECURSIVE ParseFiles(_, _, _, _, _)
ParseFiles(st, cls, pkgIdx, files, k) ==
    IF k > Len(files) \/ st.crash # "" THEN st
    ELSE ParseFiles(ParseDecls(st, cls, pkgIdx, files[k].name, files[k].decls, 1),
                    cls, pkgIdx, files, k + 1)

RECURSIVE ParsePkgs(_, _, _, _)
\* the package loop of Parser.Parse: filter, then walk every retained declaration
ParsePkgs(st, cls, syn, pkgIdx) ==
    IF pkgIdx > Len(syn) \/ st.crash # "" THEN [st |-> st, syn |-> syn]
    ELSE LET f == filterPackageDecls(syn[pkgIdx])
         IN  IF f.crash # "" THEN [st |-> [st EXCEPT !.crash = f.crash], syn |-> syn]
             ELSE ParsePkgs(ParseFiles(st, cls, pkgIdx, f.files, 1), cls,
                            [syn EXCEPT ![pkgIdx] = f.files], pkgIdx + 1)

\* Parser.Parse over the loaded packages, with the classifier cls and the
\* generator's counter last; returns the walk state and the filtered syntax
Parse(syn, cls, last) == ParsePkgs(WalkInit(Len(syn), last), cls, syn, 1)

\* --------------------------------------------------------------- paths, I/O

\* a path is its sequence of characters
Root == <<"/", "w">>
Elsewhere == <<"/", "h">>
DirNames == <<"a", "b", "c", "d">>
FileNames == <<"f", "g", "h">>
PkgDir(i) == Root \o <<"/", DirNames[i]>>
FilePath(i, k) == PkgDir(i) \o <<"/", FileNames[k]>>
OutFileName == <<"o">>

\* strings.Contains
Contains(str, sub) ==
    \E i \in 0..(Len(str) - Len(sub)) : SubSeq(str, i + 1, i + Len(sub)) = sub

IsAbs(path) == path # <<>> /\ path[1] = "/"

\* filepath.Abs under the working directory cwd (Join with cwd, then Clean)
Abs(cwd, path) ==
    IF IsAbs(path) THEN path
    ELSE IF path = <<>> \/ path = <<".">> THEN cwd
    ELSE cwd \o <<"/">> \o path

\* filepath.Join(dir, OutPackageName, "errnums.go")
JoinOut(dir) ==
    IF dir = <<".">> THEN OutPackageName \o <<"/">> \o OutFileName
    ELSE dir \o <<"/">> \o OutPackageName \o <<"/">> \o OutFileName

RECURSIVE SplitAcc(_, _, _, _)
SplitAcc(str, i, cur, acc) ==
    IF i > Len(str) THEN Append(acc, cur)
    ELSE IF str[i] = "," THEN SplitAcc(str, i + 1, <<>>, Append(acc, cur))
    ELSE SplitAcc(str, i + 1, Append(cur, str[i]), acc)

\* strings.SplitSeq(s, ","): the empty string yields one empty element
SplitSeq(str) == SplitAcc(str, 1, <<>>, <<>>)

\* bytes.Contains(data, "return") and bytes.Contains(data, "error"); the lexemes
\* whose text holds the word are R, and E and q (errors)
HasReturn(data) == \E i \in 1..Len(data) : data[i] = "R"
HasError(data) == \E i \in 1..Len(data) : data[i] \in {"E", "q"}

\* the ParseFile hook without the loop over options.SkipPaths
ParserParseFileNoSkip(skipAbs, filename, data) ==
    IF ~HasReturn(data) /\ ~HasError(data)
    THEN [ok |-> TRUE, isNil |-> TRUE, decls |-> <<>>]
    ELSE LET f == GoParseFile(data)
         IN  [ok |-> f.ok, isNil |-> FALSE, decls |-> f.nodes]

\* the ParseFile hook with a pre-check that wants the word errors in the file
ParserParseFileWantsErrors(skipAbs, filename, data) ==
    IF \E i \in 1..Len(skipAbs) : Contains(filename, skipAbs[i])
    THEN [ok |-> TRUE, isNil |-> TRUE, decls |-> <<>>]
    ELSE IF ~\E i \in 1..Len(data) : data[i] = "q"
    THEN [ok |-> TRUE, isNil |-> TRUE, decls |-> <<>>]
    ELSE LET f == GoParseFile(data)
         IN  [ok |-> f.ok, isNil |-> FALSE, decls |-> f.nodes]

\* the ParseFile hook of parser.New: nil for a skipped or pre-filtered file
ParserParseFile(skipAbs, filename, data) ==
    IF \E i \in 1..Len(skipAbs) : Contains(filename, skipAbs[i])
    THEN [ok |-> TRUE, isNil |-> TRUE, decls |-> <<>>]
    ELSE IF ~HasReturn(data) /\ ~HasError(data)
    THEN [ok |-> TRUE, isNil |-> TRUE, decls |-> <<>>]
    ELSE LET f == GoParseFile(data)
         IN  [ok |-> f.ok, isNil |-> FALSE, decls |-> f.nodes]

RECURSIVE LoadFiles(_, _, _, _, _)
\* packages.Load for one package: the non-nil files, in order; bad counts the
\* files with syntax errors
LoadFiles(skipAbs, fs, paths, k, acc) ==
    IF k > Len(paths) THEN acc
    ELSE LET f == ParserParseFile(skipAbs, paths[k], fs[paths[k]])
         IN  LoadFiles(skipAbs, fs, paths, k + 1,
                       IF ~f.ok THEN [acc EXCEPT !.bad = @ + 1]
                       ELSE IF f.isNil THEN acc
                       ELSE [acc EXCEPT !.syntax =
                                Append(@, [name |-> paths[k], decls |-> f.decls])])

\* the directories `./...` lists under the root: the source packages and, once
\* it exists, the package of the companion file
Listing(fs, srcTree, outPathAbs) ==
    IF outPathAbs \in DOMAIN fs /\ Contains(outPathAbs, Root)
    THEN Append(srcTree, <<outPathAbs>>) ELSE srcTree

\* parser.New: SkipPaths made absolute, then every package loaded
ParserNew(cwd, fs, listing, skipPaths) ==
    LET skipAbs == [i \in 1..Len(skipPaths) |-> Abs(cwd, skipPaths[i])]
        loaded == [i \in 1..Len(listing) |->
                      LoadFiles(skipAbs, fs, listing[i], 1, [bad |-> 0, syntax |-> <<>>])]
    IN  IF \E i \in 1..Len(listing) : loaded[i].bad > 0
        THEN [ok |-> FALSE, pkgs |-> <<>>]
        ELSE IF Len(listing) = 0 THEN [ok |-> FALSE, pkgs |-> <<>>]
        ELSE [ok |-> TRUE, pkgs |-> [i \in 1..Len(listing) |-> loaded[i].syntax]]

\* -------------------------------------------------------- package generator

DigitChar(d) ==
    CASE d = 0 -> "0" [] d = 1 -> "1" [] d = 2 -> "2" [] d = 3 -> "3" [] d = 4 -> "4"
      [] d = 5 -> "5" [] d = 6 -> "6" [] d = 7 -> "7" [] d = 8 -> "8" [] OTHER -> "9"

RECURSIVE Itoa(_)
\* fmt's %v of a non-negative int: its decimal digits
Itoa(n) == IF n < 10 THEN <<DigitChar(n)>> ELSE Append(Itoa(n \div 10), DigitChar(n % 10))

\* fmt.Sprintf("%s.New(%s.%s%v, %s)", OutPackageName, OutPackageName,
\*             constErrPrefix, errNum, errorContent)
Wrap(errNum, errorContent) ==
    OutPackageName \o <<"N">> \o OutPackageName \o <<"C">> \o Itoa(errNum)
        \o <<",">> \o errorContent \o <<")">>

\* a Go map as a function; Put is m[k] = v
EmptyMap == [x \in {} |-> <<>>]
Put(m, k, v) == [x \in DOMAIN m \cup {k} |-> IF x = k THEN v ELSE m[x]]

\* Go's s[a:b]
Slice(str, a, b) == SubSeq(str, a + 1, b)

\* the state of one Generate call: fileContents, g.lastErrNum, the number of
\* collected errs, whether the call returned early, and the edits made
GenInit(last) ==
    [contents |-> EmptyMap, last |-> last, errs |-> 0, abort |-> FALSE, edits |-> <<>>]

\* the loop body of Generate with errNum := i + 1
GenNodeFromZero(gs, fs, failing, pkg, nodes, i) ==
    LET errNode == nodes[i + 1]
        filename == errNode.file
        cached == filename \in DOMAIN gs.contents
    IN  IF ~cached /\ filename \in failing THEN [gs EXCEPT !.errs = @ + 1]
        ELSE LET content == IF cached THEN gs.contents[filename] ELSE fs[filename]
                 errorContent == Slice(content, errNode.pos, errNode.end)
                 errNum == i + 1
                 newErrorContent == Wrap(errNum, errorContent)
             IN  IF ~GoParseExpr(newErrorContent) THEN [gs EXCEPT !.abort = TRUE]
                 ELSE [gs EXCEPT
                         !.contents = Put(@, filename,
                                          Slice(content, 0, errNode.pos) \o newErrorContent
                                              \o Slice(content, errNode.end, Len(content))),
                         !.edits = Append(@, [pkg |-> pkg, i |-> i, file |-> filename,
                                              pos |-> errNode.pos, end |-> errNode.end,
                                              num |-> errNum, text |-> newErrorContent])]

\* one iteration of the inner loop of Generate, for errNodes[i] (i counts from 0)
GenNode(gs, fs, failing, pkg, nodes, i) ==
    LET errNode == nodes[i + 1]
        filename == errNode.file
        cached == filename \in DOMAIN gs.contents
    IN  IF ~cached /\ filename \in failing THEN [gs EXCEPT !.errs = @ + 1]
        ELSE LET content == IF cached THEN gs.contents[filename] ELSE fs[filename]
                 errorContent == Slice(content, errNode.pos, errNode.end)
                 errNum == gs.last + i + 1
                 newErrorContent == Wrap(errNum, errorContent)
             IN  IF ~GoParseExpr(newErrorContent) THEN [gs EXCEPT !.abort = TRUE]
                 ELSE [gs EXCEPT
                         !.contents = Put(@, filename,
                                          Slice(content, 0, errNode.pos) \o newErrorContent
                                              \o Slice(content, errNode.end, Len(content))),
                         !.edits = Append(@, [pkg |-> pkg, i |-> i, file |-> filename,
                                              pos |-> errNode.pos, end |-> errNode.end,
                                              num |-> errNum, text |-> newErrorContent])]

RECURSIVE GenNodes(_, _, _, _, _, _)
\* for i := len(errNodes) - 1; i >= 0; i--
GenNodes(gs, fs, failing, pkg, nodes, i) ==
    IF i < 0 \/ gs.abort THEN gs
    ELSE GenNodes(GenNode(gs, fs, failing, pkg, nodes, i), fs, failing, pkg, nodes, i - 1)

\* the body of the package loop of Generate, with g.lastErrNum += len(errNodes)
GenPkg(gs, fs, failing, pkg, nodes) ==
    LET r == GenNodes(gs, fs, failing, pkg, nodes, Len(nodes) - 1)
    IN  IF r.abort THEN r ELSE [r EXCEPT !.last = @ + Len(nodes)]

RECURSIVE GenPkgs(_, _, _, _, _, _)
\* for pkg, errNodes := range errNodesMap, in the order the map yields
GenPkgs(gs, fs, failing, errNodesMap, order, k) ==
    IF k > Len(order) \/ gs.abort THEN gs
    ELSE GenPkgs(GenPkg(gs, fs, failing, order[k], errNodesMap[order[k]]),
                 fs, failing, errNodesMap, order, k + 1)

\* the text of pkg/generator/errnums.tmpl executed with package_name and
\* const_declarations; the rest of the template is the constructor New, a
\* function that returns an error
ExecuteTemplate(packageName, constDeclarations) ==
    <<"package">> \o packageName \o constDeclarations \o <<"F", "E", "{", "R", "e", "}">>

RECURSIVE ConstLinesFromZero(_, _)
\* the const lines numbered from i instead of i + 1
ConstLinesFromZero(i, n) ==
    IF i >= n THEN <<>>
    ELSE constErrPrefix \o Itoa(i) \o <<"=">> \o Itoa(i) \o <<"\n">>
             \o ConstLinesFromZero(i + 1, n)

RECURSIVE ConstLines(_, _)
\* for i := range g.lastErrNum: "\tN_<i+1> ErrNum = <i+1>\n"
ConstLines(i, n) ==
    IF i >= n THEN <<>>
    ELSE constErrPrefix \o Itoa(i + 1) \o <<"=">> \o Itoa(i + 1) \o <<"\n">>
             \o ConstLines(i + 1, n)

\* Generator.genOutputFile
genOutputFile(lastErrNum) ==
    ExecuteTemplate(OutPackageName, <<"const(">> \o ConstLines(0, lastErrNum) \o <<")">>)

\* Generate with a map that starts with every file of the store under its
\* present content
GenerateEveryFile(fs, failing, errNodesMap, order, lastErrNum, outPathAbs) ==
    LET r == GenPkgs([GenInit(lastErrNum) EXCEPT !.contents = fs], fs, failing,
                     errNodesMap, order, 1)
    IN  IF r.abort
        THEN [fileContents |-> EmptyMap, isNil |-> TRUE, err |-> TRUE,
              last |-> r.last, edits |-> r.edits]
        ELSE [fileContents |-> Put(r.contents, outPathAbs, genOutputFile(r.last)),
              isNil |-> FALSE, err |-> r.errs > 0, last |-> r.last, edits |-> r.edits]

\* Generator.Generate: order is the iteration order of the map, failing the files
\* whose read fails
Generate(fs, failing, errNodesMap, order, lastErrNum, outPathAbs) ==
    LET r == GenPkgs(GenInit(lastErrNum), fs, failing, errNodesMap, order, 1)
    IN  IF r.abort
        THEN [fileContents |-> EmptyMap, isNil |-> TRUE, err |-> TRUE,
              last |-> r.last, edits |-> r.edits]
        ELSE [fileContents |-> Put(r.contents, outPathAbs, genOutputFile(r.last)),
              isNil |-> FALSE, err |-> r.errs > 0, last |-> r.last, edits |-> r.edits]

\* generator.New: the options kept, the output path made absolute, and the
\* read function the generator reads source bytes with
GeneratorNew(cwd, opts) ==
    [outPathAbs |-> Abs(cwd, opts.OutPath), lastErrNum |-> 0, opts |-> opts,
     readFile |-> "os.ReadFile"]

\* the orders in which a Go map of n entries can be ranged over
Orders(n) == {o \in [1..n -> 1..n] : \A i, j \in 1..n : o[i] = o[j] => i = j}

\* ------------------------------- pkg/generator/generator.go (the one-piece
\* Generator that loads, walks and rewrites by itself)

\* the test of Generator.parseResultParams for a call <OutPackageName>.New(...)
LegacyIsWrapped(retParam) ==
    /\ retParam.kind = "Call"
    /\ retParam.kids[1].kind = "Sel"
    /\ retParam.kids[1].name = <<"New">>
    /\ retParam.kids[1].kids[1].kind = "Ident"
    /\ retParam.kids[1].kids[1].name = OutPackageName

\* Generator.parseResultParams
LegacyParseResultParams(st, pkgIdx, file, ret, retErrIdx, retNumFields) ==
    LET seen == [st EXCEPT !.visits = Append(@, Visit(file, ret, retErrIdx, retNumFields))]
    IN  IF Len(ret.kids) # retNumFields THEN seen
        ELSE IF IsNilIdent(ret.kids[retErrIdx + 1]) THEN seen
        ELSE IF LegacyIsWrapped(ret.kids[retErrIdx + 1]) THEN seen
        ELSE [seen EXCEPT !.nodes[pkgIdx] = Append(@, Site(file, ret.kids[retErrIdx + 1]))]

RECURSIVE LegacyParseFunction(_, _, _, _, _)
RECURSIVE LegacyInspect(_, _, _, _, _, _)
RECURSIVE LegacyInspectAll(_, _, _, _, _, _, _)

\* the callback of ast.Inspect in Generator.parseFunction: for a FuncLit it
\* recurses and answers true, so Inspect goes on into the literal's body
LegacyInspect(st, pkgIdx, file, n, retErrIdx, retNumFields) ==
    IF st.crash # "" THEN st
    ELSE IF n.kind = "FuncLit"
    THEN LegacyInspectAll(LegacyParseFunction(st, pkgIdx, file, n.res, n.body),
                          pkgIdx, file, n.body, 1, retErrIdx, retNumFields)
    ELSE IF n.kind = "Ret"
    THEN LegacyParseResultParams(st, pkgIdx, file, n, retErrIdx, retNumFields)
    ELSE LegacyInspectAll(st, pkgIdx, file, Children(n), 1, retErrIdx, retNumFields)

LegacyInspectAll(st, pkgIdx, file, list, k, retErrIdx, retNumFields) ==
    IF k > Len(list) THEN st
    ELSE LegacyInspectAll(LegacyInspect(st, pkgIdx, file, list[k], retErrIdx, retNumFields),
                          pkgIdx, file, list, k + 1, retErrIdx, retNumFields)

\* Generator.parseFunction
LegacyParseFunction(st, pkgIdx, file, res, body) ==
    IF st.crash # "" THEN st
    ELSE IF res.isNil THEN [st EXCEPT !.crash = "nil pointer dereference"]
    ELSE IF findResultParamIdx(res) = -1 THEN st
    ELSE LegacyInspectAll(st, pkgIdx, file, body, 1, findResultParamIdx(res), NumFields(res))

RECURSIVE LegacyParseDecls(_, _, _, _, _)
LegacyParseDecls(st, pkgIdx, file, decls, k) ==
    IF k > Len(decls) \/ st.crash # "" THEN st
    ELSE LegacyParseDecls(LegacyParseFunction(st, pkgIdx, file, decls[k].res, decls[k].body),
                          pkgIdx, file, decls, k + 1)

RECURSIVE LegacyParseFiles(_, _, _, _)
LegacyParseFiles(st, pkgIdx, files, k) ==
    IF k > Len(files) \/ st.crash # "" THEN st
    ELSE LegacyParseFiles(LegacyParseDecls(st, pkgIdx, files[k].name, files[k].decls, 1),
                          pkgIdx, files, k + 1)

LegacyFiltered(st, syn, pkgIdx, f) ==
    IF f.crash # "" THEN [st |-> [st EXCEPT !.crash = f.crash], syn |-> syn]
    ELSE [st |-> LegacyParseFiles(st, pkgIdx, f.files, 1),
          syn |-> [syn EXCEPT ![pkgIdx] = f.files]]

RECURSIVE LegacyParsePkgs(_, _)
LegacyParsePkgs(r, pkgIdx) ==
    IF pkgIdx > Len(r.syn) \/ r.st.crash # "" THEN r
    ELSE LegacyParsePkgs(LegacyFiltered(r.st, r.syn, pkgIdx, filterPackageDecls(r.syn[pkgIdx])),
                         pkgIdx + 1)

\* Generator.ParseErrs; errsToEdit was made by New
ParseErrs(syn) == LegacyParsePkgs([st |-> WalkInit(Len(syn), 0), syn |-> syn], 1)

\* the ParseFile hook of generator.New: nil unless the file holds both words
LegacyParseFile(data) ==
    IF ~HasReturn(data) \/ ~HasError(data)
    THEN [ok |-> TRUE, isNil |-> TRUE, decls |-> <<>>]
    ELSE [ok |-> GoParseFile(data).ok, isNil |-> FALSE, decls |-> GoParseFile(data).nodes]

LegacyLoaded(acc, path, f) ==
    IF ~f.ok THEN [acc EXCEPT !.bad = @ + 1]
    ELSE IF f.isNil THEN acc
    ELSE [acc EXCEPT !.syntax = Append(@, [name |-> path, decls |-> f.decls])]

RECURSIVE LegacyLoadFiles(_, _, _, _)
LegacyLoadFiles(fs, paths, k, acc) ==
    IF k > Len(paths) THEN acc
    ELSE LegacyLoadFiles(fs, paths, k + 1,
                         LegacyLoaded(acc, paths[k], LegacyParseFile(fs[paths[k]])))

\* generator.New: the packages under dir; outPkg is non-nil when the output
\* file's package is found
LegacyNew(cwd, fs, listing, outPath) ==
    LET loaded == [i \in 1..Len(listing) |->
                      LegacyLoadFiles(fs, listing[i], 1, [bad |-> 0, syntax |-> <<>>])]
    IN  IF \E i \in 1..Len(listing) : loaded[i].bad > 0
        THEN [ok |-> FALSE, pkgs |-> <<>>, outPkg |-> FALSE]
        ELSE IF Len(listing) = 0 THEN [ok |-> FALSE, pkgs |-> <<>>, outPkg |-> FALSE]
        ELSE [ok |-> TRUE, pkgs |-> [i \in 1..Len(listing) |-> loaded[i].syntax],
              outPkg |-> Abs(cwd, outPath) \in DOMAIN fs]

\* fmt.Sprintf("%s.New(ERR_NUM_PLACEHOLDER, %s)", OutPackageName, errorContent)
LegacyWrap(errorContent) ==
    OutPackageName \o <<"N", "H", ",">> \o errorContent \o <<")">>

LegacySplice(gs, pkg, i, errNode, content, newErrorContent) ==
    IF ~GoParseExpr(newErrorContent) THEN [gs EXCEPT !.abort = TRUE]
    ELSE [gs EXCEPT
            !.contents = Put(@, errNode.file,
                             Slice(content, 0, errNode.pos) \o newErrorContent
                                 \o Slice(content, errNode.end, Len(content))),
            !.edits = Append(@, [pkg |-> pkg, i |-> i, file |-> errNode.file,
                                 pos |-> errNode.pos, end |-> errNode.end,
                                 num |-> 0, text |-> newErrorContent])]

LegacyGenContent(gs, pkg, i, errNode, content) ==
    LegacySplice(gs, pkg, i, errNode, content,
                 LegacyWrap(Slice(content, errNode.pos, errNode.end)))

\* one iteration of the inner loop of Generator.Generate
LegacyGenNode(gs, fs, failing, pkg, errNode, i) ==
    IF errNode.file \notin DOMAIN gs.contents /\ errNode.file \in failing
    THEN [gs EXCEPT !.errs = @ + 1]
    ELSE LegacyGenContent(gs, pkg, i, errNode,
                          IF errNode.file \in DOMAIN gs.contents
                          THEN gs.contents[errNode.file] ELSE fs[errNode.file])

RECURSIVE LegacyGenNodes(_, _, _, _, _, _)
LegacyGenNodes(gs, fs, failing, pkg, nodes, i) ==
    IF i < 0 \/ gs.abort THEN gs
    ELSE LegacyGenNodes(LegacyGenNode(gs, fs, failing, pkg, nodes[i + 1], i),
                        fs, failing, pkg, nodes, i - 1)

RECURSIVE LegacyGenPkgs(_, _, _, _, _)
\* for pkgIdx, pkg := range g.pkgs
LegacyGenPkgs(gs, fs, failing, errsToEdit, pkgIdx) ==
    IF pkgIdx > Len(errsToEdit) \/ gs.abort THEN gs
    ELSE LegacyGenPkgs(LegacyGenNodes(gs, fs, failing, pkgIdx, errsToEdit[pkgIdx],
                                      Len(errsToEdit[pkgIdx]) - 1),
                       fs, failing, errsToEdit, pkgIdx + 1)

LegacyReturned(r) ==
    IF r.abort
    THEN [fileContents |-> EmptyMap, isNil |-> TRUE, err |-> TRUE, last |-> 0,
          edits |-> r.edits]
    ELSE [fileContents |-> r.contents, isNil |-> FALSE, err |-> r.errs > 0, last |-> 0,
          edits |-> r.edits]

\* Generator.Generate of generator.go
LegacyGenerate(fs, failing, errsToEdit) ==
    LegacyReturned(LegacyGenPkgs(GenInit(0), fs, failing, errsToEdit, 1))

\* ------------------------------------------------------------------ inputs

\* source files, as bytes
SrcSimple == <<"V", "F", "E", "{", "R", "e", "}">>
SrcMixed == <<"F", "T", "E", "{", "R", "s", ",", "q", "N", "s", ")",
              "R", "s", ",", "n", "R", "}">>
SrcTwoErrIdent == <<"V", "F", "E", "E", "{", "R", "e", ",", "n", "}">>
SrcTwoErrCall == <<"V", "F", "E", "E", "{", "R", "q", "N", "s", ")", ",", "n", "}">>
SrcWrapped == <<"F", "E", "{", "R", "P", "N", "P", "C", "9", ",", "e", ")",
                "B", "{", "R", "P", "N", "P", "C", "3", ",", "e", ")", "}", "R", "e", "}">>
SrcNested == <<"F", "E", "T", "{", "X", "L", "T", "E", "{", "R", "s", ",", "e", "}",
               "R", "e", ",", "s", "}">>
SrcNoResultLit == <<"F", "E", "{", "X", "L", "{", "R", "}", "R", "e", "}">>
SrcHiddenLit == <<"F", "{", "X", "L", "E", "{", "R", "e", "}", "}",
                  "F", "E", "{", "R", "q", "(", "L", "E", "{", "R", "e", "}", ")", "}">>
SrcForward == <<"F", "E", "T", "{", "R", "q", "(", ")", "}",
                "F", "x", "x", "T", "x", "E", "{", "R", "s", ",", "s", ",", "e", "}">>
SrcTwoErrFirst == <<"F", "E", "E", "{", "R", "e", ",", "e", "}">>
SrcNoFunc == <<"V">>
\* a function that returns a string only
SrcNoError == <<"F", "T", "{", "R", "s", "}">>
\* a function whose body is not closed: a syntax error
SrcBad == <<"F", "E", "{", "R", "e">>

\* the packages a tree is built from, each a list of files
PkgCorpus ==
    << <<SrcSimple>>, <<SrcMixed, SrcSimple>>, <<SrcTwoErrIdent>>, <<SrcTwoErrCall>>,
       <<SrcWrapped, SrcNoError>>, <<SrcNested>>, <<SrcNoResultLit>>, <<SrcHiddenLit>>,
       <<SrcForward, SrcNoFunc>>, <<SrcTwoErrFirst>>, <<SrcBad>> >>

NumPkgs == 2
MaxRuns == 2

\* the invocations: working directory, directory argument, value of -skip
Configs ==
    { [cwd |-> Elsewhere, dir |-> Root, skip |-> <<>>],
      [cwd |-> Root, dir |-> <<".">>, skip |-> <<>>],
      [cwd |-> Elsewhere, dir |-> Root, skip |-> PkgDir(2)] }

Choices == UNION {[1..n -> 1..Len(PkgCorpus)] : n \in 1..NumPkgs}

TreeOf(choice) ==
    [i \in DOMAIN choice |-> [k \in 1..Len(PkgCorpus[choice[i]]) |-> FilePath(i, k)]]

FsOf(choice) ==
    LET at == UNION {{<<i, k>> : k \in 1..Len(PkgCorpus[choice[i]])} : i \in DOMAIN choice}
    IN  [path \in {FilePath(ik[1], ik[2]) : ik \in at} |->
            LET ik == CHOOSE x \in at : FilePath(x[1], x[2]) = path
            IN  PkgCorpus[choice[ik[1]]][ik[2]]]

\* ------------------------------------------------------------- state machine

VARIABLES
    fs,       \* storage: path -> bytes
    srcTree,  \* the source packages under the root: lists of file paths
    cfg,      \* the invocation
    pc,       \* where run is
    runNo,    \* how many times the tool has been started
    gen,      \* the Generator: outPathAbs, lastErrNum
    pkgs,     \* Parser.pkgs: per package its Syntax (files with their Decls)
    walk,     \* the state of Parse; walk.nodes is errsToEdit
    out,      \* what Generate returned
    wr        \* the write phase of run: its flags, the files still to write, the storage calls made

vars == <<fs, srcTree, cfg, pc, runNo, gen, pkgs, walk, out, wr>>

NoOut == [fileContents |-> EmptyMap, isNil |-> TRUE, err |-> FALSE, last |-> 0,
          edits |-> <<>>, order |-> <<>>]

NoGen == [outPathAbs |-> <<>>, lastErrNum |-> 0]

NoWr == [dryRun |-> FALSE, backup |-> FALSE, log |-> <<>>, printed |-> EmptyMap, todo |-> {}]

Init ==
    /\ \E choice \in Choices : srcTree = TreeOf(choice) /\ fs = FsOf(choice)
    /\ cfg \in Configs
    /\ pc = "start"
    /\ runNo = 1
    /\ gen = NoGen
    /\ pkgs = <<>>
    /\ walk = WalkInit(0, 0)
    /\ out = NoOut
    /\ wr = NoWr

\* run: gopts.OutPath defaults to <dir>/<out-pkg>/errnums.go; generator.New
RunGeneratorNew ==
    /\ pc = "start"
    /\ gen' = [outPathAbs |-> Abs(cfg.cwd, JoinOut(cfg.dir)), lastErrNum |-> 0]
    /\ pc' = "new"
    /\ UNCHANGED <<fs, srcTree, cfg, runNo, pkgs, walk, out, wr>>

\* run: popts.SkipPaths = {OutPath} and the elements of -skip; parser.New
RunParserNew ==
    /\ pc = "new"
    /\ LET r == ParserNew(cfg.cwd, fs, Listing(fs, srcTree, gen.outPathAbs),
                          <<JoinOut(cfg.dir)>> \o SplitSeq(cfg.skip))
       IN  /\ pkgs' = r.pkgs
           /\ pc' = IF r.ok THEN "loaded" ELSE "load failed"
    /\ UNCHANGED <<fs, srcTree, cfg, runNo, gen, walk, out, wr>>

\* run: p.Parse() with RetParamParser = g.ParseRetParam
RunParse ==
    /\ pc = "loaded"
    /\ LET r == Parse(pkgs, "generator", gen.lastErrNum)
       IN  /\ walk' = r.st
           /\ pkgs' = r.syn
           /\ gen' = [gen EXCEPT !.lastErrNum = r.st.last]
           /\ pc' = IF r.st.crash # "" THEN "crashed" ELSE "parsed"
    /\ UNCHANGED <<fs, srcTree, cfg, runNo, out, wr>>

\* the files Generate may have to read
NodeFiles ==
    UNION {{walk.nodes[i][k].file : k \in 1..Len(walk.nodes[i])} : i \in 1..Len(walk.nodes)}

\* Generate when genOutputFile may fail: rendered is whether the template was
\* executed without error; if not, Generate returns nil, "", err
Unrendered(r) ==
    IF r.isNil THEN r
    ELSE [fileContents |-> EmptyMap, isNil |-> TRUE, err |-> TRUE,
          last |-> r.last, edits |-> r.edits]

GenerateRendering(d, failing, errNodesMap, order, lastErrNum, outPathAbs, rendered) ==
    IF rendered THEN Generate(d, failing, errNodesMap, order, lastErrNum, outPathAbs)
    ELSE Unrendered(Generate(d, failing, errNodesMap, order, lastErrNum, outPathAbs))

\* run with `if err != nil { return err }` after Generate left out while a map
\* was returned
AfterGenerateIgnoringErr(r) == IF r.isNil THEN "generate failed" ELSE "generated"

\* run: `if err != nil { return err }` after Generate
AfterGenerate(r) == IF r.err THEN "generate failed" ELSE "generated"

\* run: what the call of Generate leaves behind, r being what it returned
Generated(r, order) ==
    /\ out' = [fileContents |-> r.fileContents, isNil |-> r.isNil, err |-> r.err,
               last |-> r.last, edits |-> r.edits, order |-> order]
    /\ gen' = [gen EXCEPT !.lastErrNum = r.last]
    /\ pc' = AfterGenerate(r)

\* run: g.Generate(parsed); a non-nil error ends the run before any write
RunGenerate ==
    /\ pc = "parsed"
    /\ \E order \in Orders(Len(walk.nodes)), failing \in {{}} \cup {{f} : f \in NodeFiles} :
          Generated(GenerateRendering(fs, failing, walk.nodes, order, gen.lastErrNum,
                                      gen.outPathAbs, TRUE), order)
    /\ UNCHANGED <<fs, srcTree, cfg, runNo, pkgs, walk, wr>>

\* run: g.Generate(parsed) when the companion file cannot be rendered
RunGenerateUnrendered ==
    /\ pc = "parsed"
    /\ \E order \in Orders(Len(walk.nodes)), failing \in {{}} \cup {{f} : f \in NodeFiles} :
          Generated(GenerateRendering(fs, failing, walk.nodes, order, gen.lastErrNum,
                                      gen.outPathAbs, FALSE), order)
    /\ UNCHANGED <<fs, srcTree, cfg, runNo, pkgs, walk, wr>>

Bkp(path) == path \o <<".bkp">>

\* filepath.Dir: the path up to its last separator
Dir(path) ==
    LET cuts == {i \in 1..Len(path) : path[i] = "/"}
    IN  IF cuts = {} THEN <<".">>
        ELSE SubSeq(path, 1, (CHOOSE i \in cuts : \A k \in cuts : k <= i) - 1)

\* one storage call as the log keeps it
Call(op, name, data, perm, ok) ==
    [op |-> op, name |-> name, data |-> data, perm |-> perm, ok |-> ok]

\* st.Mode() of a source file, as the perm argument of a write
ModeOf(filename) == <<"mode of">> \o filename

\* os.WriteFile(name, data, perm) on storage d: it succeeds ("ok") or fails with
\* the storage as it was
OsWriteFile(d, name, data, how) == IF how = "ok" THEN Put(d, name, data) ELSE d

\* the directory and the companion file written whatever -dry says
RunOutputNoDry(d, updated, dryRun, outputFilename, how) ==
    IF how = "mkdir"
    THEN [fs |-> d, err |-> TRUE, printed |-> updated,
          log |-> <<Call("MkdirAll", Dir(outputFilename), <<>>, <<"0775">>, FALSE)>>]
    ELSE [fs |-> OsWriteFile(d, outputFilename, updated[outputFilename], how),
          err |-> how # "ok", printed |-> updated,
          log |-> <<Call("MkdirAll", Dir(outputFilename), <<>>, <<"0775">>, TRUE),
                    Call("WriteFile", outputFilename, updated[outputFilename], <<"0664">>,
                         how = "ok")>>]

\* MkdirAll and the write of the companion file without the returns on their
\* errors
RunOutputIgnoringErr(d, updated, dryRun, outputFilename, how) ==
    IF dryRun
    THEN [fs |-> d, log |-> <<>>, err |-> FALSE, printed |-> updated]
    ELSE IF how = "mkdir"
    THEN [fs |-> d, err |-> FALSE, printed |-> EmptyMap,
          log |-> <<Call("MkdirAll", Dir(outputFilename), <<>>, <<"0775">>, FALSE)>>]
    ELSE [fs |-> OsWriteFile(d, outputFilename, updated[outputFilename], how),
          err |-> FALSE, printed |-> EmptyMap,
          log |-> <<Call("MkdirAll", Dir(outputFilename), <<>>, <<"0775">>, TRUE),
                    Call("WriteFile", outputFilename, updated[outputFilename], <<"0664">>,
                         how = "ok")>>]

\* run, after Generate: under -dry print and return nil; else MkdirAll and the
\* write of the companion file. how: "ok", or the call that fails
RunOutput(d, updated, dryRun, outputFilename, how) ==
    IF dryRun
    THEN [fs |-> d, log |-> <<>>, err |-> FALSE, printed |-> updated]
    ELSE IF how = "mkdir"
    THEN [fs |-> d, err |-> TRUE, printed |-> EmptyMap,
          log |-> <<Call("MkdirAll", Dir(outputFilename), <<>>, <<"0775">>, FALSE)>>]
    ELSE [fs |-> OsWriteFile(d, outputFilename, updated[outputFilename], how),
          err |-> how # "ok", printed |-> EmptyMap,
          log |-> <<Call("MkdirAll", Dir(outputFilename), <<>>, <<"0775">>, TRUE),
                    Call("WriteFile", outputFilename, updated[outputFilename], <<"0664">>,
                         how = "ok")>>]

\* the ways one iteration of the loop over the updated source files can end
Hows(backup) ==
    {"ok", "stat", "write"} \cup (IF backup THEN {"read", "bkp"} ELSE {})

\* one iteration of the loop over updated, with the source written first
WriteSourceFirst(d, filename, content, backup, how) ==
    IF how = "stat" THEN [fs |-> d, log |-> <<>>, err |-> TRUE]
    ELSE LET w == IF how = "write" THEN "fail" ELSE "ok"
             b == IF how = "bkp" THEN "fail" ELSE "ok"
             d1 == OsWriteFile(d, filename, content, w)
         IN  IF w # "ok" \/ ~backup
             THEN [fs |-> d1, err |-> w # "ok",
                   log |-> <<Call("WriteFile", filename, content, ModeOf(filename), w = "ok")>>]
             ELSE IF how = "read"
             THEN [fs |-> d1, err |-> TRUE,
                   log |-> <<Call("WriteFile", filename, content, ModeOf(filename), TRUE)>>]
             ELSE [fs |-> OsWriteFile(d1, Bkp(filename), d1[filename], b), err |-> b # "ok",
                   log |-> <<Call("WriteFile", filename, content, ModeOf(filename), TRUE),
                             Call("WriteFile", Bkp(filename), d1[filename], ModeOf(filename),
                                  b = "ok")>>]

\* one iteration of the loop over updated: Stat, under -bkp ReadFile and the
\* write of <filename>.bkp, then the write of the source file; every failure
\* returns from run
WriteSource(d, filename, content, backup, how) ==
    IF how = "stat" THEN [fs |-> d, log |-> <<>>, err |-> TRUE]
    ELSE IF backup /\ how = "read" THEN [fs |-> d, log |-> <<>>, err |-> TRUE]
    ELSE IF backup /\ how = "bkp"
    THEN [fs |-> OsWriteFile(d, Bkp(filename), d[filename], "fail"), err |-> TRUE,
          log |-> <<Call("WriteFile", Bkp(filename), d[filename], ModeOf(filename), FALSE)>>]
    ELSE LET w == IF how = "write" THEN "fail" ELSE "ok"
             d1 == IF backup THEN OsWriteFile(d, Bkp(filename), d[filename], "ok") ELSE d
             log1 == IF backup
                     THEN <<Call("WriteFile", Bkp(filename), d[filename], ModeOf(filename),
                                 TRUE)>>
                     ELSE <<>>
         IN  [fs |-> OsWriteFile(d1, filename, content, w), err |-> w # "ok",
              log |-> Append(log1, Call("WriteFile", filename, content, ModeOf(filename),
                                        w = "ok"))]

\* run, after Generate returned no error: the -dry branch, or the directory and
\* the companion file
RunWriteStart ==
    /\ pc = "generated"
    /\ \E dryRun \in BOOLEAN, backup \in BOOLEAN, how \in {"ok", "mkdir", "fail"} :
          LET r == RunOutput(fs, out.fileContents, dryRun, gen.outPathAbs, how)
              sources == DOMAIN out.fileContents \ {gen.outPathAbs}
          IN  /\ fs' = r.fs
              /\ wr' = [dryRun |-> dryRun, backup |-> backup, log |-> r.log,
                        printed |-> r.printed,
                        todo |-> IF dryRun \/ r.err THEN {} ELSE sources]
              /\ pc' = IF dryRun THEN "dry done"
                       ELSE IF r.err THEN "write failed"
                       ELSE IF sources = {} THEN "done" ELSE "writing"
    /\ UNCHANGED <<srcTree, cfg, runNo, gen, pkgs, walk, out>>

\* run: one iteration of `for filename, content := range updated`
RunWriteSource ==
    /\ pc = "writing"
    /\ \E filename \in wr.todo, how \in Hows(wr.backup) :
          LET r == WriteSource(fs, filename, out.fileContents[filename], wr.backup, how)
          IN  /\ fs' = r.fs
              /\ wr' = [wr EXCEPT !.todo = @ \ {filename}, !.log = @ \o r.log]
              /\ pc' = IF r.err THEN "write failed"
                       ELSE IF wr.todo = {filename} THEN "done" ELSE "writing"
    /\ UNCHANGED <<srcTree, cfg, runNo, gen, pkgs, walk, out>>

\* run, after Generate, when every storage call succeeds: print under -dry; else
\* write the companion file, then for every updated source file its backup
\* (under -bkp) and the file itself
RunWrite ==
    /\ pc = "generated"
    /\ \E dryRun \in BOOLEAN, backup \in BOOLEAN :
          LET outputFilename == gen.outPathAbs
              sources == DOMAIN out.fileContents \ {outputFilename}
              backups == IF backup THEN {Bkp(f) : f \in sources} ELSE {}
          IN  IF dryRun
              THEN /\ fs' = fs
                   /\ pc' = "dry done"
              ELSE /\ fs' = [path \in DOMAIN fs \cup {outputFilename} \cup backups |->
                               IF path = outputFilename THEN out.fileContents[outputFilename]
                               ELSE IF path \in sources THEN out.fileContents[path]
                               ELSE IF path \in backups
                               THEN fs[CHOOSE f \in sources : Bkp(f) = path]
                               ELSE fs[path]]
                   /\ pc' = "done"
    /\ UNCHANGED <<srcTree, cfg, runNo, gen, pkgs, walk, out, wr>>

\* the tool is started again on the tree it has written
Rerun ==
    /\ pc = "done"
    /\ runNo < MaxRuns
    /\ pc' = "start"
    /\ runNo' = runNo + 1
    /\ gen' = NoGen
    /\ pkgs' = <<>>
    /\ walk' = WalkInit(0, 0)
    /\ out' = NoOut
    /\ wr' = NoWr
    /\ UNCHANGED <<fs, srcTree, cfg>>

Next ==
    \/ RunGeneratorNew
    \/ RunParserNew
    \/ RunParse
    \/ RunGenerate
    \/ RunWrite
    \/ Rerun

Spec == Init /\ [][Next]_vars

\* one run with its write phase call by call, every storage call able to fail
NextWrite ==
    \/ RunGeneratorNew
    \/ RunParserNew
    \/ RunParse
    \/ RunGenerate
    \/ RunGenerateUnrendered
    \/ RunWriteStart
    \/ RunWriteSource

\* the tool started outside the root, on the root, with no -skip
InitWrite == Init /\ cfg = [cwd |-> Elsewhere, dir |-> Root, skip |-> <<>>]

SpecWrite == InitWrite /\ [][NextWrite]_vars

\* ------------------------------------------- the parser used on its own, as in
\* parser_test.go: New(dir, GetDefaultOptions()), then Parse

TestParserNew ==
    /\ pc = "start"
    /\ LET r == ParserNew(cfg.cwd, fs, Listing(fs, srcTree, gen.outPathAbs), <<>>)
       IN  /\ pkgs' = r.pkgs
           /\ pc' = IF r.ok THEN "loaded" ELSE "load failed"
    /\ UNCHANGED <<fs, srcTree, cfg, runNo, gen, walk, out, wr>>

TestParse ==
    /\ pc = "loaded"
    /\ LET r == Parse(pkgs, "default", 0)
       IN  /\ walk' = r.st
           /\ pkgs' = r.syn
           /\ pc' = IF r.st.crash # "" THEN "crashed" ELSE "parsed"
    /\ UNCHANGED <<fs, srcTree, cfg, runNo, gen, out, wr>>

NextParser ==
    \/ TestParserNew
    \/ TestParse

SpecParser == Init /\ [][NextParser]_vars

\* ------------------------------------- a client of pkg/generator/generator.go:
\* New(dir, options) with OutPath <dir>/<out-pkg>/errnums.go, ParseErrs, Generate

LegacyRunNew ==
    /\ pc = "start"
    /\ LET r == LegacyNew(cfg.cwd, fs, Listing(fs, srcTree, Abs(cfg.cwd, JoinOut(cfg.dir))),
                          JoinOut(cfg.dir))
       IN  /\ pkgs' = r.pkgs
           /\ gen' = [outPathAbs |-> Abs(cfg.cwd, JoinOut(cfg.dir)), lastErrNum |-> 0,
                      outPkg |-> r.outPkg]
           /\ walk' = WalkInit(Len(r.pkgs), 0)
           /\ pc' = IF r.ok THEN "loaded" ELSE "load failed"
    /\ UNCHANGED <<fs, srcTree, cfg, runNo, out, wr>>

LegacyRunParseErrs ==
    /\ pc = "loaded"
    /\ LET r == ParseErrs(pkgs)
       IN  /\ walk' = r.st
           /\ pkgs' = r.syn
           /\ pc' = IF r.st.crash # "" THEN "crashed" ELSE "parsed"
    /\ UNCHANGED <<fs, srcTree, cfg, runNo, gen, out, wr>>

LegacyRunGenerate ==
    /\ pc = "parsed"
    /\ \E failing \in {{}} \cup {{f} : f \in NodeFiles} :
          LET r == LegacyGenerate(fs, failing, walk.nodes)
          IN  /\ out' = [fileContents |-> r.fileContents, isNil |-> r.isNil, err |-> r.err,
                         last |-> r.last, edits |-> r.edits,
                         order |-> [i \in 1..Len(walk.nodes) |-> i]]
              /\ pc' = IF r.err THEN "generate failed" ELSE "generated"
    /\ UNCHANGED <<fs, srcTree, cfg, runNo, gen, pkgs, walk, wr>>

NextLegacy ==
    \/ LegacyRunNew
    \/ LegacyRunParseErrs
    \/ LegacyRunGenerate

SpecLegacy == Init /\ [][NextLegacy]_vars

\* ------------------- a client of package generator with its own GenOptions:
\* New(opts) with a Reader of the client's choice, the parser, then Generate

\* the values of GenOptions.Reader: os.ReadFile, and a reader over a store of
\* the client's that holds none of the source files
Readers == {"os.ReadFile", "client store"}

\* the files a read through readFile fails for
FailingThrough(readFile, files) == IF readFile = "os.ReadFile" THEN {} ELSE files

ClientGeneratorNew ==
    /\ pc = "start"
    /\ \E reader \in Readers :
          gen' = GeneratorNew(cfg.cwd, [OutPath |-> JoinOut(cfg.dir), Reader |-> reader])
    /\ pc' = "new"
    /\ UNCHANGED <<fs, srcTree, cfg, runNo, pkgs, walk, out, wr>>

\* g.Generate(parsed): every read goes through g.readFile
ClientGenerate ==
    /\ pc = "parsed"
    /\ \E order \in Orders(Len(walk.nodes)) :
          Generated(Generate(fs, FailingThrough(gen.readFile, NodeFiles), walk.nodes, order,
                             gen.lastErrNum, gen.outPathAbs), order)
    /\ UNCHANGED <<fs, srcTree, cfg, runNo, pkgs, walk, wr>>

NextReader ==
    \/ ClientGeneratorNew
    \/ RunParserNew
    \/ RunParse
    \/ ClientGenerate

SpecReader == Init /\ [][NextReader]_vars

\* ---- the classifier, call by call: Parse over one function whose return
\* statements hold the candidate expressions, then Generate

\* candidate result expressions: bare values, calls of other packages, and calls
\* of <out-pkg>.New in every shape ParseRetParam tells apart
CandTexts ==
    << <<"e">>,
       <<"q", "N", "s", ")">>,
       <<"P", "N", "P", "C", "3", ",", "e", ")">>,
       <<"P", "N", "P", "C", "1", "2", ",", "q", "N", "s", ")", ")">>,
       <<"P", "N", "e", ")">>,
       <<"P", "N", "e", ",", "e", ")">>,
       <<"P", "N", "P", "C", "7", ",", "e", ",", "e", ")">>,
       <<"P", "N", "q", "C", "5", ",", "e", ")">>,
       <<"q", "N", "P", "C", "8", ",", "e", ")">>,
       <<"P", "N", "P", "C", ",", "e", ")">> >>

MaxSites == 3

RECURSIVE CandReturns(_, _)
CandReturns(seq, k) ==
    IF k > Len(seq) THEN <<>>
    ELSE <<"R">> \o CandTexts[seq[k]] \o CandReturns(seq, k + 1)

\* func f() error { return <c1>; return <c2>; ... }
CandFile(seq) == <<"F", "E", "{">> \o CandReturns(seq, 1) \o <<"}">>

CandSeqs == UNION {[1..n -> 1..Len(CandTexts)] : n \in 0..MaxSites}

\* the state after generator.New and parser.New on a tree of one file
InitClassifier ==
    /\ \E seq \in CandSeqs : fs = (FilePath(1, 1) :> CandFile(seq))
    /\ srcTree = << <<FilePath(1, 1)>> >>
    /\ cfg = [cwd |-> Elsewhere, dir |-> Root, skip |-> <<>>]
    /\ pc = "loaded"
    /\ runNo = 1
    /\ gen = [outPathAbs |-> Abs(cfg.cwd, JoinOut(cfg.dir)), lastErrNum |-> 0]
    /\ pkgs = ParserNew(cfg.cwd, fs, srcTree, <<JoinOut(cfg.dir)>> \o SplitSeq(cfg.skip)).pkgs
    /\ walk = WalkInit(1, 0)
    /\ out = NoOut
    /\ wr = NoWr

\* the return statements of the function, in source order
CandBody == pkgs[1][1].decls[1].body

\* Parse, one return statement at a time: parseResultParams on the next return
\* statement, which calls g.ParseRetParam on its error slot
ClassifyNext ==
    /\ pc = "loaded"
    /\ Len(walk.visits) < Len(CandBody)
    /\ walk' = parseResultParams([walk EXCEPT !.last = gen.lastErrNum], "generator", 1,
                                 pkgs[1][1].name, CandBody[Len(walk.visits) + 1],
                                 findResultParamIdx(pkgs[1][1].decls[1].res),
                                 NumFields(pkgs[1][1].decls[1].res))
    /\ gen' = [gen EXCEPT !.lastErrNum = walk'.last]
    /\ UNCHANGED <<fs, srcTree, cfg, pc, runNo, pkgs, out, wr>>

\* g.Generate on what Parse returned
ClassifierGenerate ==
    /\ pc = "loaded"
    /\ Len(walk.visits) = Len(CandBody)
    /\ Generated(Generate(fs, {}, walk.nodes, <<1>>, gen.lastErrNum, gen.outPathAbs), <<1>>)
    /\ UNCHANGED <<fs, srcTree, cfg, runNo, pkgs, walk, wr>>

NextClassifier ==
    \/ ClassifyNext
    \/ ClassifierGenerate

SpecClassifier == InitClassifier /\ [][NextClassifier]_vars


\* ---------------------------------------------------------------- properties

Max(S) == CHOOSE x \in S : \A y \in S : y <= x

\* the largest number recovered from wrapped sites, 0 when there is none
RecoveredMax == Max(walk.recovered \cup {0})

RECURSIVE SumLens(_, _)
\* how many nodes the packages 1..p of seqs hold
SumLens(seqs, p) == IF p = 0 THEN 0 ELSE Len(seqs[p]) + SumLens(seqs, p - 1)

NumNodes == SumLens(walk.nodes, Len(walk.nodes))

EditNums == {out.edits[k].num : k \in DOMAIN out.edits}

Range3(r) == [file |-> r.file, pos |-> r.pos, end |-> r.end]

\* every site Parse returned, handed to the classifier, or Generate rewrote
NodeSites == UNION {{walk.nodes[p][k] : k \in DOMAIN walk.nodes[p]} : p \in DOMAIN walk.nodes}
ClassifiedSites == {walk.classified[k] : k \in DOMAIN walk.classified}
EditSites == {Range3(out.edits[k]) : k \in DOMAIN out.edits}
TouchedSites == NodeSites \cup ClassifiedSites \cup EditSites

Visits == {walk.visits[k] : k \in DOMAIN walk.visits}

RECURSIVE Reverse(_)
Reverse(q) == IF q = <<>> THEN <<>> ELSE Append(Reverse(Tail(q)), Head(q))

RECURSIVE EditsFrom(_, _)
\* the edits made in file f, in the order Generate made them from index k on
EditsFrom(f, k) ==
    IF k > Len(out.edits) THEN <<>>
    ELSE IF out.edits[k].file = f THEN <<out.edits[k]>> \o EditsFrom(f, k + 1)
    ELSE EditsFrom(f, k + 1)

\* the edits of file f in discovery order (Generate works backwards)
EditsOf(f) == Reverse(EditsFrom(f, 1))

UpdatedSources == DOMAIN out.fileContents \ {gen.outPathAbs}

\* Generate has returned a map and nothing has been written since
MapReturned == pc \in {"generated", "generate failed"} /\ ~out.isNil

RECURSIVE Restored(_, _, _, _)
\* orig with every scheduled range replaced by its replacement text
Restored(orig, es, k, cursor) ==
    IF k > Len(es) THEN Slice(orig, cursor, Len(orig))
    ELSE Slice(orig, cursor, es[k].pos) \o es[k].text \o Restored(orig, es, k + 1, es[k].end)

RECURSIVE Stepwise(_, _, _, _)
\* the edits es applied first to last, each at its range moved by the growth
\* delta of the buffer so far, wrapping what the buffer holds there
Stepwise(buf, es, k, delta) ==
    IF k > Len(es) THEN buf
    ELSE Stepwise(Slice(buf, 0, es[k].pos + delta)
                      \o Wrap(es[k].num, Slice(buf, es[k].pos + delta, es[k].end + delta))
                      \o Slice(buf, es[k].end + delta, Len(buf)),
                  es, k + 1,
                  delta + Len(Wrap(es[k].num, <<>>)))

\* C1 (idempotence): a run on the tree a first run has written ends normally,
\* schedules no edit (only the companion file is in the returned map) and its
\* companion file is byte-identical to the one the first run wrote.
C1_Idempotence ==
    runNo >= 2 =>
        /\ pc \notin {"load failed", "crashed", "generate failed"}
        /\ pc = "generated" =>
              /\ DOMAIN out.fileContents = {gen.outPathAbs}
              /\ out.fileContents[gen.outPathAbs] = fs[gen.outPathAbs]

\* C2 (byte preservation): every source file in the map Generate returned is the
\* original file with exactly the scheduled ranges replaced by their replacement
\* texts; all other bytes are unchanged and in order.
C2_BytePreservation ==
    MapReturned =>
        \A f \in UpdatedSources : out.fileContents[f] = Restored(fs[f], EditsOf(f), 1, 0)

\* C3 (offset safety): the content Generate produced for a file, splicing from the
\* last node to the first at original offsets, equals the content obtained by
\* applying the same edits one at a time with offsets recomputed after each step.
C3_OffsetSafety ==
    MapReturned =>
        \A f \in UpdatedSources : out.fileContents[f] = Stepwise(fs[f], EditsOf(f), 1, 0)

\* C4 (counter lower bound): every number Generate assigns to an edit is strictly
\* greater than every number ParseRetParam recovered in that run.
C4_CounterLowerBound ==
    \A k \in DOMAIN out.edits : \A r \in walk.recovered : out.edits[k].num > r

C4_Witness ==
    /\ pc = "generated"
    /\ out.edits # <<>>
    /\ \E r \in walk.recovered : r > NumNodes

C6_DeterministicOrder ==
    (~out.isNil /\ ~out.err) =>
        \A k \in DOMAIN out.edits :
            out.edits[k].num = RecoveredMax + SumLens(walk.nodes, out.edits[k].pkg - 1)
                                   + out.edits[k].i + 1

Within(s, v) == s.file = v.file /\ v.pos <= s.pos /\ s.end <= v.end

\* C7 (arity guard): a return statement whose number of results differs from the
\* number of declared result slots yields no node, no classifier call and no
\* edit, and does not end the run with a panic.
C7_ArityGuard ==
    /\ walk.crash # "index out of range: Results[retErrIdx]"
    /\ \A v \in Visits : Len(v.results) # v.n => \A s \in TouchedSites : ~Within(s, v)

C7_Witness ==
    /\ pc = "done"
    /\ \E v \in Visits : v.results = <<>> /\ v.n > 0
    /\ \E v \in Visits : Len(v.results) = 1 /\ v.n > 1

SlotSite(v) ==
    [file |-> v.file, pos |-> v.results[v.idx + 1].pos, end |-> v.results[v.idx + 1].end]

\* C8 (nil guard): the error-slot expression of a return statement, when it is the
\* identifier nil, is not handed to the classifier, is not in Parse's output and
\* is not rewritten.
C8_NilGuard ==
    \A v \in Visits :
        (Len(v.results) = v.n /\ v.results[v.idx + 1].isNil) => SlotSite(v) \notin TouchedSites

C8_Witness ==
    /\ pc = "done"
    /\ out.edits # <<>>
    /\ \E v \in Visits : Len(v.results) = v.n /\ v.results[v.idx + 1].isNil

\* the error-slot index of a function type, -1 without an error result
OwnIdx(res) == IF res.isNil THEN -1 ELSE findResultParamIdx(res)

RECURSIVE ReturnsOf(_, _, _, _, _)
\* every return statement at or below node n, with the error-slot index and the
\* result count of the function or literal it belongs to; lit tells whether that
\* is a literal
ReturnsOf(file, n, idx, nf, lit) ==
    IF n.kind \in {"Func", "FuncLit"}
    THEN UNION {ReturnsOf(file, n.body[k], OwnIdx(n.res), NumFields(n.res),
                          n.kind = "FuncLit") : k \in DOMAIN n.body}
    ELSE (IF n.kind = "Ret"
          THEN {[file |-> file, pos |-> n.pos, idx |-> idx, n |-> nf, lit |-> lit,
                 results |-> Visit(file, n, idx, nf).results]}
          ELSE {})
         \cup UNION {ReturnsOf(file, Children(n)[k], idx, nf, lit) : k \in DOMAIN Children(n)}

\* the return statements of the syntax trees Parser.pkgs / Generator.pkgs hold
LoadedReturns ==
    UNION {UNION {UNION {ReturnsOf(pkgs[p][f].name, pkgs[p][f].decls[d], -1, 0, FALSE)
                         : d \in DOMAIN pkgs[p][f].decls}
                  : f \in DOMAIN pkgs[p]}
           : p \in DOMAIN pkgs}

\* C9 (nested function independence): every return statement of a function
\* literal is visited with the literal's own error-slot index and result count,
\* and is visited once.
C9_NestedFunctionIndependence ==
    \A r \in {x \in LoadedReturns : x.lit} :
        /\ \A v \in Visits :
              (v.file = r.file /\ v.pos = r.pos) => (v.idx = r.idx /\ v.n = r.n)
        /\ \A j, k \in DOMAIN walk.visits :
              (walk.visits[j].file = r.file /\ walk.visits[j].pos = r.pos
               /\ walk.visits[k].file = r.file /\ walk.visits[k].pos = r.pos) => j = k

\* the return statements of the files as go/parser reads them
SourceReturns ==
    UNION {UNION {UNION {ReturnsOf(srcTree[p][f], GoParseFile(fs[srcTree[p][f]]).nodes[d],
                                   -1, 0, FALSE)
                         : d \in DOMAIN GoParseFile(fs[srcTree[p][f]]).nodes}
                  : f \in DOMAIN srcTree[p]}
           : p \in DOMAIN srcTree}

\* C10 (completeness of discovery): with the default classifier, when Parse
\* returns, its output holds the error-slot expression of every return statement
\* that lies in a function or literal with an error result, has as many results
\* as declared and whose error-slot expression is not nil.
C10_Completeness ==
    pc = "parsed" =>
        \A r \in SourceReturns :
            (r.idx # -1 /\ Len(r.results) = r.n /\ ~r.results[r.idx + 1].isNil)
                => SlotSite(r) \in NodeSites

RECURSIVE ErrorSlotsFrom(_, _, _)
\* the zero-based result slots of a result list whose declared type is `error`,
\* a field of k names taking k slots
ErrorSlotsFrom(list, k, cnt) ==
    IF k > Len(list) THEN {}
    ELSE (IF list[k].type = "E"
          THEN cnt..(cnt + (IF list[k].names > 0 THEN list[k].names ELSE 1) - 1)
          ELSE {})
         \cup ErrorSlotsFrom(list, k + 1,
                             cnt + (IF list[k].names > 0 THEN list[k].names ELSE 1))

ErrorSlots(res) == IF res.isNil THEN {} ELSE ErrorSlotsFrom(res.list, 1, 0)

RECURSIVE ErrorSlotSites(_, _, _, _)
\* the expressions that stand in an error-typed slot of a return statement at or
\* below node n; slots and nf belong to the function or literal around n
ErrorSlotSites(file, n, slots, nf) ==
    IF n.kind \in {"Func", "FuncLit"}
    THEN UNION {ErrorSlotSites(file, n.body[k], ErrorSlots(n.res), NumFields(n.res))
                : k \in DOMAIN n.body}
    ELSE (IF n.kind = "Ret" /\ Len(n.kids) = nf
          THEN {Site(file, n.kids[k + 1]) : k \in slots}
          ELSE {})
         \cup UNION {ErrorSlotSites(file, Children(n)[k], slots, nf)
                     : k \in DOMAIN Children(n)}

SourceErrorSlotSites ==
    UNION {UNION {UNION {ErrorSlotSites(srcTree[p][f],
                                        GoParseFile(fs[srcTree[p][f]]).nodes[d], {}, 0)
                         : d \in DOMAIN GoParseFile(fs[srcTree[p][f]]).nodes}
                  : f \in DOMAIN srcTree[p]}
           : p \in DOMAIN srcTree}

\* C11 (soundness of discovery): every node Parse returns is, with its exact byte
\* range, the expression in an error-typed result slot of a return statement of a
\* function or literal that declares an error result; nothing else is returned.
C11_Soundness == NodeSites \subseteq SourceErrorSlotSites

C11_Witness ==
    /\ pc = "parsed"
    /\ \E v \in Visits : v.idx > 0 /\ Len(v.results) = v.n /\ SlotSite(v) \in NodeSites
    /\ \E v \in Visits : v.idx = 0 /\ Len(v.results) > 1 /\ SlotSite(v) \in NodeSites

\* the expression that starts at a site of the source
ExprAt(s) == SynExpr(fs[s.file], s.pos + 1).node

\* <out-pkg>.New(<X>.N_<digits>, <inner>): the wrapped form
IsWrapped(n) ==
    /\ n.kind = "Call"
    /\ n.kids[1].kind = "Sel" /\ n.kids[1].name = <<"New">>
    /\ n.kids[1].kids[1].kind = "Ident" /\ n.kids[1].kids[1].name = OutPackageName
    /\ Len(n.kids) = 3
    /\ n.kids[2].kind = "Sel"
    /\ Len(n.kids[2].name) > 1
    /\ n.kids[2].name[1] = "N_"
    /\ \A i \in 2..Len(n.kids[2].name) : n.kids[2].name[i] \in Digits

\* C12 (classifier exactness): ParseRetParam answers skip=true only for a call
\* <out-pkg>.New(<X>.N_<digits>, <inner>) of exactly two arguments; every other
\* candidate handed to it, a New call of another argument count or of another
\* first argument included, is scheduled.
C12_ClassifierExactness ==
    \A s \in ClassifiedSites : s \notin NodeSites => IsWrapped(ExprAt(s))

\* the number a wrapped site carries
WrapNum(n) == AtoiAcc(Tail(n.kids[2].name), 1, 0)

WrapNums(sites) == {WrapNum(ExprAt(s)) : s \in {t \in sites : IsWrapped(ExprAt(t))}}

C13_State ==
    /\ pc = "loaded" => gen.lastErrNum = Max(WrapNums(ClassifiedSites) \cup {0})
    /\ pc = "loaded" /\ Len(walk.visits) = Len(CandBody)
          => gen.lastErrNum = Max(WrapNums(SourceErrorSlotSites) \cup {0})
    /\ MapReturned
          => /\ \A s \in SourceErrorSlotSites : IsWrapped(ExprAt(s)) => s \notin EditSites
             /\ \A f \in UpdatedSources :
                   out.fileContents[f] = Restored(fs[f], EditsOf(f), 1, 0)

\* C13 (counter recovery never regresses): over the ParseRetParam calls of a
\* Parse and the Generate that follows, lastErrNum never decreases; after the
\* calls it is the largest number carried by the wrapped sites seen, 0 when
\* there is none, whatever their order in the source; and Generate leaves every
\* wrapped site and its number as they are.
C13_CounterRecovery ==
    [](C13_State) /\ [][gen'.lastErrNum >= gen.lastErrNum]_vars

\* two wrapped sites were seen, the larger number first, and a third site got
\* the next number
C13_Witness ==
    /\ pc = "generated"
    /\ Cardinality(walk.recovered) > 1
    /\ IsWrapped(ExprAt(walk.classified[1]))
    /\ WrapNum(ExprAt(walk.classified[1])) = RecoveredMax
    /\ Len(out.edits) > 0
    /\ gen.lastErrNum = RecoveredMax + 1

RECURSIVE IndexFrom(_, _, _)
IndexFrom(t, c, i) == IF i > Len(t) \/ t[i] = c THEN i ELSE IndexFrom(t, c, i + 1)

RECURSIVE ReadConsts(_, _)
\* the constants a const block declares, read line by line from index i:
\* each line is N_<digits> = <digits> and a newline
ReadConsts(t, i) ==
    IF Tok(t, i) # "N_" THEN <<>>
    ELSE LET eq == IndexFrom(t, "=", i)
             nl == IndexFrom(t, "\n", eq)
         IN  <<[name |-> Atoi(SubSeq(t, i + 1, eq - 1)),
                val |-> Atoi(SubSeq(t, eq + 1, nl - 1))]>> \o ReadConsts(t, nl + 1)

\* the identifier constants the companion file declares, in order
DeclaredConsts(content) == ReadConsts(content, IndexFrom(content, "const(", 1) + 1)

\* C15 (registry content): the companion file Generate returns declares exactly
\* one constant N_<i> of value i for each i in 1..C and no other, C being the
\* largest number recovered from wrapped sites plus the number of edits
\* scheduled in the run; every number carried by a wrapped site the run has
\* seen or written is declared.
C15_RegistryContent ==
    MapReturned =>
        LET C == RecoveredMax + NumNodes
            consts == DeclaredConsts(out.fileContents[gen.outPathAbs])
        IN  /\ gen.outPathAbs \in DOMAIN out.fileContents
            /\ Len(consts) = C
            /\ \A i \in 1..C : consts[i] = [name |-> [ok |-> TRUE, val |-> i],
                                            val |-> [ok |-> TRUE, val |-> i]]
            /\ \A k \in DOMAIN out.edits : out.edits[k].num \in 1..C
            /\ \A n \in walk.recovered : n \in 1..C

\* numbers were recovered, edits were made, and the registry has ten entries
C15_Witness ==
    /\ pc = "generated"
    /\ RecoveredMax = 9
    /\ Len(out.edits) = 1
    /\ Len(DeclaredConsts(out.fileContents[gen.outPathAbs])) = 10

\* run has returned an error before its write phase
Failed == pc \in {"load failed", "crashed", "generate failed"}

C16_State == pc \notin {"writing", "write failed", "done"} => wr.log = <<>>

C16_Step ==
    /\ ~Failed
    /\ fs' # fs \/ wr'.log # wr.log
          => /\ pc \in {"generated", "writing"}
             /\ walk.crash = ""
             /\ ~out.isNil /\ ~out.err

\* C16 (no partial commit): run makes no storage call (directory, companion
\* file, backup, source file) before Parse and Generate have both completed; when
\* loading, discovery, a file read of Generate, the synthesis of a replacement or
\* the rendering of the registry fails, run returns with nothing written and the
\* sources as they were.
C16_NoPartialCommit == [](C16_State) /\ [][C16_Step]_vars

\* Generate failed on a file read after it had computed edits, and nothing
\* was written
C16_Witness ==
    /\ pc = "generate failed"
    /\ ~out.isNil
    /\ Len(out.edits) > 0
    /\ wr.log = <<>>

\* the storage calls a step has added to the log
NewCalls == SubSeq(wr'.log, Len(wr.log) + 1, Len(wr'.log))

\* a step of the loop over the updated files under -bkp: the file it handles is
\* overwritten only after <file>.bkp was written with the file's bytes and
\* mode; without that write the file stays as it is and run returns; the files
\* still to come are untouched
C17_Step ==
    /\ pc # "write failed"
    /\ pc = "generated" => \A f \in UpdatedSources : fs'[f] = fs[f]
    /\ pc = "writing" /\ wr.backup
          => /\ \A f \in wr'.todo : fs'[f] = fs[f]
             /\ \A f \in wr.todo \ wr'.todo :
                   LET bk == {i \in DOMAIN NewCalls :
                                 /\ NewCalls[i].op = "WriteFile"
                                 /\ NewCalls[i].name = Bkp(f)
                                 /\ NewCalls[i].data = fs[f]
                                 /\ NewCalls[i].perm = ModeOf(f)
                                 /\ NewCalls[i].ok}
                       ws == {j \in DOMAIN NewCalls : NewCalls[j].name = f}
                   IN  /\ \A j \in ws : \E i \in bk : i < j
                       /\ fs'[f] # fs[f] => ws # {} /\ fs'[Bkp(f)] = fs[f]
                       /\ bk = {} => fs'[f] = fs[f] /\ pc' = "write failed"

\* C17 (backup ordering): with -bkp and without -dry, for every modified source
\* file the write of <path>.bkp, holding the file's content from before the run
\* under the file's mode, completes before the file is overwritten; when the
\* read for the backup or its write fails, the file is not overwritten and run
\* stops.
C17_BackupOrdering ==
    [](wr.backup /\ ~wr.dryRun => \A f \in UpdatedSources \ wr.todo :
                                     fs[f] = out.fileContents[f] => Bkp(f) \in DOMAIN fs)
        /\ [][C17_Step]_vars

\* two source files were overwritten, each after its backup
C17_Witness ==
    /\ pc = "done"
    /\ wr.backup
    /\ Cardinality(UpdatedSources) = 2
    /\ \A f \in UpdatedSources :
          /\ fs[f] = out.fileContents[f]
          /\ Bkp(f) \in DOMAIN fs
          /\ fs[Bkp(f)] # fs[f]

\* C18 (dry run writes nothing): under -dry run makes no storage call (no
\* directory, no companion file, no backup, no source file), with or without
\* -bkp, prints the contents Generate returned and returns success.
C18_DryRun ==
    [](wr.dryRun => /\ pc = "dry done"
                    /\ wr.log = <<>>
                    /\ wr.printed = out.fileContents)
        /\ [][wr'.dryRun => fs' = fs /\ wr'.todo = {}]_vars

\* a dry run under -bkp with source files to update
C18_Witness ==
    /\ pc = "dry done"
    /\ wr.dryRun /\ wr.backup
    /\ UpdatedSources # {}
    /\ \A f \in UpdatedSources : fs[f] # out.fileContents[f] /\ Bkp(f) \notin DOMAIN fs

\* the skip list in effect: the companion-output path and the elements of
\* -skip, made absolute
EffectiveSkip ==
    <<Abs(cfg.cwd, JoinOut(cfg.dir))>>
        \o [i \in 1..Len(SplitSeq(cfg.skip)) |-> Abs(cfg.cwd, SplitSeq(cfg.skip)[i])]

SkippedPath(f) == \E i \in 1..Len(EffectiveSkip) : Contains(f, EffectiveSkip[i])

LoadedFiles == UNION {{pkgs[p][k].name : k \in DOMAIN pkgs[p]} : p \in DOMAIN pkgs}

\* C19 (skip list): a file whose absolute path contains a configured skip path
\* is not parsed, yields no node and is never rewritten; the companion-output
\* path is always in the skip list in effect, so the companion file is never
\* discovered into or rewritten.
C19_SkipList ==
    /\ \A f \in DOMAIN fs :
          SkippedPath(f) =>
              /\ f \notin LoadedFiles
              /\ f \notin NodeFiles
              /\ \A k \in DOMAIN out.edits : out.edits[k].file # f
              /\ f \in DOMAIN out.fileContents => f = gen.outPathAbs
    /\ pc # "start" =>
          /\ SkippedPath(gen.outPathAbs)
          /\ gen.outPathAbs \notin LoadedFiles \cup NodeFiles
          /\ \A k \in DOMAIN out.edits : out.edits[k].file # gen.outPathAbs

\* a second run, on a tree that holds the companion file and a package under a
\* skip path next to a package that was loaded
C19_Witness ==
    /\ runNo = 2
    /\ pc = "parsed"
    /\ gen.outPathAbs \in DOMAIN fs
    /\ cfg.skip = PkgDir(2)
    /\ Len(srcTree) = 2
    /\ LoadedFiles # {}
    /\ \A k \in 1..Len(srcTree[2]) :
          HasReturn(fs[srcTree[2][k]]) /\ srcTree[2][k] \notin LoadedFiles

RECURSIVE DeclCount(_, _)
\* the declarations of the files k.. of one package
DeclCount(files, k) ==
    IF k > Len(files) THEN 0 ELSE Len(files[k].decls) + DeclCount(files, k + 1)

\* the declarations of all the loaded packages
TotalDecls == SumLens([p \in DOMAIN pkgs |-> [i \in 1..DeclCount(pkgs[p], 1) |-> i]], Len(pkgs))

\* C20 (NoSourceFound): when the loaded units hold no declaration at all, also
\* when packages exist but every file is empty, skipped or pre-filtered away,
\* parser.New fails and the run aborts; so a parser that was constructed holds
\* at least one declaration.
C20_NoSourceFound == pc = "loaded" => TotalDecls > 0

\* C21 (no overlapping edits): in the node list Parse hands to Generate the
\* ranges of one file are pairwise disjoint and in strictly increasing order of
\* start offset, each ending at or before the start of the next; no return site
\* is scheduled twice.
C21_NoOverlappingEdits ==
    \A p \in DOMAIN walk.nodes :
        \A i, j \in DOMAIN walk.nodes[p] :
            i < j /\ walk.nodes[p][i].file = walk.nodes[p][j].file
                => walk.nodes[p][i].end <= walk.nodes[p][j].pos

\* a function declaration with a result list that has an entry of type error
Qualifies(d) ==
    /\ d.kind = "Func"
    /\ ~d.res.isNil
    /\ \E k \in DOMAIN d.res.list : d.res.list[k].type = "E"

\* the files parser.New has parsed when no skip path is configured, with the
\* declarations the source holds
ParsedSources ==
    {path \in UNION {{srcTree[p][k] : k \in DOMAIN srcTree[p]} : p \in DOMAIN srcTree} :
        HasReturn(fs[path]) \/ HasError(fs[path])}

SourceDecls(path) ==
    {GoParseFile(fs[path]).nodes[d] : d \in DOMAIN GoParseFile(fs[path]).nodes}

\* the declarations the syntax list holds for a file after the filter
KeptDecls(path) ==
    UNION {UNION {IF pkgs[p][k].name = path
                  THEN {pkgs[p][k].decls[d] : d \in DOMAIN pkgs[p][k].decls}
                  ELSE {} : k \in DOMAIN pkgs[p]} : p \in DOMAIN pkgs}

\* C22 (declaration filter exactness): after filterPackageDecls a file's
\* declaration list contains a declaration if and only if it is a function
\* declaration with a result list in which a result has the type error; a file
\* without such a declaration is dropped from the syntax list, a file with one
\* is kept.
C22_FilterExactness ==
    pc = "parsed" =>
        \A path \in ParsedSources :
            /\ KeptDecls(path) = {d \in SourceDecls(path) : Qualifies(d)}
            /\ path \in LoadedFiles <=> \E d \in SourceDecls(path) : Qualifies(d)

\* the filter dropped a file without a qualifying function, and removed a
\* declaration from a file it kept
C22_Witness ==
    /\ pc = "parsed"
    /\ \E path \in ParsedSources : path \notin LoadedFiles
    /\ \E path \in ParsedSources :
          /\ path \in LoadedFiles
          /\ KeptDecls(path) # SourceDecls(path)

RECURSIVE SlotTypes(_, _)
\* the declared types of the result slots, left to right: an entry of k names
\* gives k slots of its type, an entry without names one
SlotTypes(list, k) ==
    IF k > Len(list) THEN <<>>
    ELSE [i \in 1..(IF list[k].names > 0 THEN list[k].names ELSE 1) |-> list[k].type]
             \o SlotTypes(list, k + 1)

\* the zero-based position of the first slot of type error, -1 without one
FirstErrorSlot(res) ==
    IF res.isNil \/ \A i \in DOMAIN SlotTypes(res.list, 1) : SlotTypes(res.list, 1)[i] # "E"
    THEN -1
    ELSE (CHOOSE i \in DOMAIN SlotTypes(res.list, 1) :
              /\ SlotTypes(res.list, 1)[i] = "E"
              /\ \A k \in 1..(i - 1) : SlotTypes(res.list, 1)[k] # "E") - 1

SlotCount(res) == IF res.isNil THEN 0 ELSE Len(SlotTypes(res.list, 1))

RECURSIVE SlotReturns(_, _, _, _)
\* every return statement at or below node n with the first error slot and the
\* slot count of the function or literal around it
SlotReturns(file, n, idx, nf) ==
    IF n.kind \in {"Func", "FuncLit"}
    THEN UNION {SlotReturns(file, n.body[k], FirstErrorSlot(n.res), SlotCount(n.res))
                : k \in DOMAIN n.body}
    ELSE (IF n.kind = "Ret" THEN {[file |-> file, pos |-> n.pos, idx |-> idx, n |-> nf]}
          ELSE {})
         \cup UNION {SlotReturns(file, Children(n)[k], idx, nf) : k \in DOMAIN Children(n)}

SourceSlotReturns ==
    UNION {UNION {UNION {SlotReturns(srcTree[p][f], GoParseFile(fs[srcTree[p][f]]).nodes[d],
                                     -1, 0)
                         : d \in DOMAIN GoParseFile(fs[srcTree[p][f]]).nodes}
                  : f \in DOMAIN srcTree[p]}
           : p \in DOMAIN srcTree}

\* C23 (error-slot index): the index findResultParamIdx answers is the
\* zero-based position of the first result slot of type error, counting slots
\* left to right with an entry of k names as k slots and an entry without
\* names as one; the result count a return statement is compared with counts
\* slots the same way.
C23_ErrorSlotIndex ==
    \A v \in Visits :
        \E r \in SourceSlotReturns :
            r.file = v.file /\ r.pos = v.pos /\ r.idx = v.idx /\ r.n = v.n

\* a return statement of a function whose two result entries make three slots,
\* the error in the third
C23_Witness ==
    /\ pc = "parsed"
    /\ \E v \in Visits : v.idx = 2 /\ v.n = 3 /\ Len(v.results) = 3
                         /\ SlotSite(v) \in NodeSites

\* C24 (functions without an error result are skipped): for a function
\* declaration or a function literal whose result list has no entry of type
\* error, a literal that declares no results included, parseFunction visits
\* none of the function's own return statements and neither fails nor
\* crashes.
C24_NoErrorResultSkipped ==
    /\ walk.crash # "nil pointer dereference"
    /\ \A r \in SourceSlotReturns :
           r.idx = -1 => ~\E v \in Visits : v.file = r.file /\ v.pos = r.pos

\* the source files that hold a return statement inside a function or literal
\* with a result of type error
RelevantFiles == {r.file : r \in {x \in SourceSlotReturns : x.idx # -1}}

AllSources == UNION {{srcTree[p][f] : f \in DOMAIN srcTree[p]} : p \in DOMAIN srcTree}

\* C25 (pre-filter safety): the raw-byte pre-check of the loader never
\* discards a file with a relevant site: every file that holds a return
\* statement inside a function with an error result, and matches no skip
\* path, is handed to the structural parser and is among the loaded files.
C25_PrefilterSafety ==
    pc = "loaded" =>
        \A path \in RelevantFiles : ~SkippedPath(path) => path \in LoadedFiles

\* a load that discarded a file holding neither word and kept a file with a
\* relevant site
C25_Witness ==
    /\ pc = "loaded"
    /\ \E path \in AllSources :
           /\ ~SkippedPath(path)
           /\ ~HasReturn(fs[path]) /\ ~HasError(fs[path])
           /\ path \notin LoadedFiles
    /\ \E path \in RelevantFiles : ~SkippedPath(path) /\ path \in LoadedFiles

\* the reads of source bytes Generate performed, each with the function it went
\* through
GeneratorReads ==
    IF pc \in {"generated", "generate failed"}
    THEN {[file |-> f, through |-> gen.readFile] : f \in NodeFiles}
    ELSE {}

\* C26 (pluggable reader): every read of source bytes the generator performs
\* goes through the function configured in GenOptions.Reader, so a generator
\* built with a reader of the client's never reads through another function.
C26_PluggableReader ==
    \A r \in GeneratorReads : r.through = gen.opts.Reader

\* C27 (the filter keeps each declaration once): filterPackageDecls never
\* writes past the end of the declaration list, and the list it leaves for a
\* file is the file's qualifying function declarations, each exactly once and
\* in their original order, also when a result list has two or more entries
\* of type error.
C27_FilterKeepsOnce ==
    /\ walk.crash # "index out of range: Decls[j]"
    /\ pc = "parsed" =>
           \A p \in DOMAIN pkgs :
               \A k \in DOMAIN pkgs[p] :
                   pkgs[p][k].decls
                       = SelectSeq(GoParseFile(fs[pkgs[p][k].name]).nodes, Qualifies)

\* C28 (an empty skip option excludes nothing extra): with the skip option
\* left empty, the skip list handed to the parser holds the companion-output
\* path and nothing else, so every other file under the root is loaded,
\* whatever the working directory is.
C28_EmptySkipExcludesNothing ==
    cfg.skip = <<>> /\ pc \notin {"start", "new"} =>
        /\ EffectiveSkip = <<gen.outPathAbs>>
        /\ pc = "loaded" => \A path \in RelevantFiles : path \in LoadedFiles

\* the files a storage call of the write phase may name when only the files
\* with a scheduled edit are touched
WriteTargets ==
    {gen.outPathAbs, Dir(gen.outPathAbs)} \cup NodeFiles \cup {Bkp(f) : f \in NodeFiles}

\* a source file with no scheduled edit is not named by any storage call and
\* has no backup
UnscheduledUntouched ==
    /\ \A k \in DOMAIN wr.log : wr.log[k].name \in WriteTargets
    /\ \A path \in AllSources \ NodeFiles : Bkp(path) \notin DOMAIN fs

\* C29 as stated (the updated map holds only edited files): the map Generate
\* returns has a key for a source file if and only if an edit was scheduled in
\* that file, plus the key of the companion-output path; a source file with
\* no scheduled edit is never backed up or overwritten.
C29_UpdatedMapAsStated ==
    /\ ~out.isNil => DOMAIN out.fileContents = NodeFiles \cup {gen.outPathAbs}
    /\ UnscheduledUntouched

\* C29 (the updated map holds only edited files), amended: every source key
\* of the map Generate returns is a file with a scheduled edit and an edit
\* made; when Generate returns no error, every file with a scheduled edit
\* has a key; the companion-output path always has one; a source file with
\* no scheduled edit is never backed up or overwritten.
C29_UpdatedMap ==
    /\ ~out.isNil =>
           /\ gen.outPathAbs \in DOMAIN out.fileContents
           /\ gen.outPathAbs \notin NodeFiles
           /\ UpdatedSources \subseteq NodeFiles
           /\ \A f \in UpdatedSources : \E k \in DOMAIN out.edits : out.edits[k].file = f
           /\ ~out.err => NodeFiles \subseteq UpdatedSources
    /\ UnscheduledUntouched

\* a finished run that rewrote and backed up one file and left a loaded file
\* without scheduled edit alone
C29_Witness ==
    /\ pc = "done"
    /\ \E f \in UpdatedSources : Bkp(f) \in DOMAIN fs /\ fs[f] = out.fileContents[f]
    /\ \E path \in AllSources \ NodeFiles :
           /\ path \in DOMAIN fs
           /\ Bkp(path) \notin DOMAIN fs
           /\ HasReturn(fs[path])

RECURSIVE DigitsEnd(_, _)
\* the index after the run of digits that starts at index i of t
DigitsEnd(t, i) == IF Tok(t, i) \in Digits THEN DigitsEnd(t, i + 1) ELSE i

\* the numbers of the identifier constants <out-pkg>.N_<digits> a source text
\* refers to
ConstRefs(content) ==
    {AtoiAcc(SubSeq(content, i + 1, DigitsEnd(content, i + 1) - 1), 1, 0) :
        i \in {k \in 2..Len(content) :
                  content[k] = "C" /\ SubSeq(content, k - 1, k - 1) = OutPackageName}}

\* the numbers of the constants of consts
ConstNames(consts) == {consts[k].name.val : k \in DOMAIN consts}

\* the source files the log has a successful write of
WrittenSources ==
    {f \in UpdatedSources :
        \E i \in DOMAIN wr.log :
            wr.log[i].op = "WriteFile" /\ wr.log[i].name = f /\ wr.log[i].ok}

\* every file of written holds its new content and refers to constants, all
\* of them in declared
RefsDeclared(written, declared) ==
    \A f \in written :
        /\ fs[f] = out.fileContents[f]
        /\ ConstRefs(fs[f]) # {}
        /\ ConstRefs(fs[f]) \subseteq declared

\* the storage call is the successful write of the companion file
CompanionWritten(c) ==
    /\ c.op = "WriteFile" /\ c.name = gen.outPathAbs /\ c.ok
    /\ c.data = out.fileContents[gen.outPathAbs]

\* C30 (registry before sources): in the write phase the directory is made and
\* the companion file written before any call on a source file or a backup;
\* when making the directory or writing the companion file fails, run stops
\* with every source file as it was and no backup; a source file written by
\* the run refers only to constants the companion file on disk declares.
C30_RegistryBeforeSources ==
    /\ \A i \in DOMAIN wr.log :
           wr.log[i].name \notin {gen.outPathAbs, Dir(gen.outPathAbs)}
               => /\ i > 2
                  /\ wr.log[1].op = "MkdirAll" /\ wr.log[1].ok
                  /\ CompanionWritten(wr.log[2])
    /\ wr.log # <<>> /\ (~wr.log[1].ok \/ (Len(wr.log) >= 2 /\ ~wr.log[2].ok))
           => /\ pc = "write failed"
              /\ Len(wr.log) <= 2
              /\ \A f \in UpdatedSources :
                     fs[f] # out.fileContents[f] /\ Bkp(f) \notin DOMAIN fs
    /\ WrittenSources # {}
           => /\ gen.outPathAbs \in DOMAIN fs
              /\ RefsDeclared(WrittenSources,
                              ConstNames(DeclaredConsts(fs[gen.outPathAbs])))

\* a run that wrote the companion file and then a source file that refers to
\* a constant recovered from an earlier run and to a new one
C30_Witness ==
    /\ pc = "done"
    /\ Len(wr.log) > 2
    /\ CompanionWritten(wr.log[2])
    /\ \E f \in UpdatedSources :
           /\ fs[f] = out.fileContents[f]
           /\ Cardinality(ConstRefs(fs[f])) >= 2

\* the write of the companion file failed while source files were to be
\* written
CompanionWriteFailed ==
    /\ pc = "write failed"
    /\ Len(wr.log) = 2 /\ ~wr.log[2].ok
    /\ UpdatedSources # {}


====
